---- MODULE Spec2Model ----
(***************************************************************************)
(* Model of the control-flow resolver (src/src/resolver.rs), of the graph  *)
(* substrate it builds on (src/src/graph/graph_impl.rs) and of the         *)
(* bytecode reader that calls it (src/src/bytecode_reader.rs).             *)
(*                                                                         *)
(* recurse_block is recursive; the model keeps its call stack explicitly.  *)
(* One step runs one activation from where it stands to its next recursive *)
(* call or to its return.  Nodes are only added (add_node, split_node) and *)
(* edges only appended, at most one node per step, so every graph the      *)
(* program passes through is a state of the model as far as the node set   *)
(* is concerned; an add_edge on a missing endpoint is a panic of its own.  *)
(***************************************************************************)
EXTENDS Integers, Sequences, FiniteSets, TLC

\* bc_raw: the instruction array; graph: the Graph<Block, BranchKind> under
\* construction; stack: the activations of recurse_block, innermost first;
\* result: "running", "ok" (Ok returned) or the panic that ended the run;
\* splits: the keys of the nodes made by split_node so far (history only);
\* rd: the state of the bytecode reader (src/src/bytecode_reader.rs), NoReader
\* while the resolver or the graph runs on its own; lifter: the Lifter
\* (src/src/lifting.rs) and the IR graph it builds, NoLifter while none exists
VARIABLES bc_raw, graph, stack, result, splits, rd, lifter

vars == <<bc_raw, graph, stack, result, splits, rd, lifter>>

NoReader == [pc |-> "none"]

NoLifter == [pc |-> "none"]

(***************************************************************************)
(* Bounds of the model.                                                    *)
(***************************************************************************)
\* longest instruction array explored
MaxLen == 4
\* jump offsets explored: -MaxOff..MaxOff
MaxOff == 2
\* most branch instructions in an array of the loop specifications
MaxBranch == 2
\* node keys of the graph specification: 0..MaxKey
MaxKey == 2
\* most edges of the graph specification
MaxEdges == 2

(***************************************************************************)
(* Option<u32>: None is -1, Some(x) is x.                                  *)
(***************************************************************************)
None == -1

Max(S) == CHOOSE x \in S : \A y \in S : y <= x
Min(S) == CHOOSE x \in S : \A y \in S : x <= y

(***************************************************************************)
(* Instruction words.  A word is kept as its fields (opcode byte, A        *)
(* operand and D operand, whose bytes are B and C); TLC's integers are     *)
(* 32-bit signed and cannot hold D << 16.                                  *)
(***************************************************************************)
InsA(op, a, d) == [op |-> op, a |-> a, d |-> d]
\* a word whose A operand is zero
Ins(op, d) == InsA(op, 0, d)
get_op(ins) == ins.op
get_a(ins) == ins.a
get_b(ins) == ins.d % 256
get_c(ins) == ins.d \div 256
get_d(ins) == ins.d

\* opcode numbers of disasm's match arms
OP_ISLT == 0
OP_ISF == 15
OP_MOV == 18
OP_UCLO == 50
OP_ISNEXT == 72
OP_RETM == 73
OP_RET == 74
OP_RET0 == 75
OP_RET1 == 76
OP_FORI == 77
OP_JFORI == 78
OP_FORL == 79
OP_IFORL == 80
OP_JFORL == 81
OP_ITERL == 82
OP_IITERL == 83
OP_JITERL == 84
OP_JMP == 88
OP_FUNCCW == 96

\* the bias of the Jump operand
JumpBias == 32768

\* Jump::from(u16), as a number; for val = 0 the negation overflows and this
\* is the wrapped value (Jump_from tells the builds apart)
JumpFrom(val) == IF val >= JumpBias THEN val - JumpBias ELSE 0 - (JumpBias - val)

\* the opcodes whose D operand disasm decodes as a Jump and the resolver reads
JumpOps == {OP_UCLO, OP_ISNEXT, OP_FORI, OP_JFORI, OP_FORL, OP_IFORL,
            OP_ITERL, OP_IITERL, OP_JMP}

OpName(op) ==
    CASE op \in OP_ISLT..OP_ISF -> "COND"
      [] op = OP_UCLO -> "UCLO"
      [] op = OP_ISNEXT -> "ISNEXT"
      [] op \in {OP_RETM, OP_RET, OP_RET0, OP_RET1} -> "RET"
      [] op \in {OP_FORI, OP_JFORI} -> "FORI"
      [] op \in {OP_FORL, OP_IFORL} -> "FORL"
      [] op \in {OP_ITERL, OP_IITERL} -> "ITERL"
      [] op = OP_JFORL -> "JFORL"
      [] op = OP_JITERL -> "JITERL"
      [] op = OP_JMP -> "JMP"
      [] OTHER -> "OTHER"

\* disasm: the match arm taken (grouped as the resolver groups them) and the
\* decoded jump operand; an opcode above 0x60 panics
disasm(ins_raw) ==
    IF get_op(ins_raw) > OP_FUNCCW
    THEN [name |-> "panic", jump |-> 0]
    ELSE [name |-> OpName(get_op(ins_raw)),
          jump |-> IF get_op(ins_raw) \in JumpOps THEN JumpFrom(get_d(ins_raw)) ELSE 0]

(***************************************************************************)
(* Graph<N, E>: nodes is the BTreeMap (a function on its key set), edges   *)
(* the Vec; edge index i of the code is edges[i + 1].                      *)
(***************************************************************************)
Node(weight, out, inc) ==
    [weight |-> weight, next_outgoing_edge |-> out, next_incoming_edge |-> inc]

Edge(weight, from, to, out, inc) ==
    [weight |-> weight, from |-> from, to |-> to,
     next_outgoing_edge |-> out, next_incoming_edge |-> inc]

GraphNew == [nodes |-> [k \in {} |-> Node(<<>>, None, None)], edges |-> <<>>]

exists(g, index) == index \in DOMAIN g.nodes

node_weight(g, index) == g.nodes[index].weight

try_prev_node(g, index) ==
    LET below == {k \in DOMAIN g.nodes : k <= index}
    IN  IF below = {} THEN None ELSE Max(below)

try_next_node(g, index) ==
    LET above == {k \in DOMAIN g.nodes : k >= index}
    IN  IF above = {} THEN None ELSE Min(above)

\* BTreeMap::insert: a node already at index is replaced
add_node(g, index, weight) ==
    [g EXCEPT !.nodes = [k \in DOMAIN g.nodes \cup {index} |->
                            IF k = index THEN Node(weight, None, None) ELSE g.nodes[k]]]

\* both endpoints are unwrapped: the caller decides the panic with edge_ok
edge_ok(g, from, to) == exists(g, from) /\ exists(g, to)

\* mutant: the new edge is not linked to the edges its endpoints had
add_edge_unlinked(g, weight, from, to) ==
    [nodes |-> [k \in DOMAIN g.nodes |->
                  [g.nodes[k] EXCEPT
                     !.next_outgoing_edge = IF k = from THEN Len(g.edges) ELSE @,
                     !.next_incoming_edge = IF k = to THEN Len(g.edges) ELSE @]],
     edges |-> Append(g.edges, Edge(weight, from, to, None, None))]

add_edge(g, weight, from, to) ==
    LET index == Len(g.edges)
        next_outgoing_edge == g.nodes[from].next_outgoing_edge
        next_incoming_edge == g.nodes[to].next_incoming_edge
    IN  [nodes |-> [k \in DOMAIN g.nodes |->
                      [g.nodes[k] EXCEPT
                         !.next_outgoing_edge = IF k = from THEN index ELSE @,
                         !.next_incoming_edge = IF k = to THEN index ELSE @]],
         edges |-> Append(g.edges,
                          Edge(weight, from, to, next_outgoing_edge, next_incoming_edge))]

\* the edge indices reached from head along next_outgoing_edge, at most fuel of them
RECURSIVE out_chain(_, _, _)
out_chain(edges, head, fuel) ==
    IF head = None \/ fuel = 0 THEN <<>>
    ELSE <<head>> \o out_chain(edges, edges[head + 1].next_outgoing_edge, fuel - 1)

RECURSIVE in_chain(_, _, _)
in_chain(edges, head, fuel) ==
    IF head = None \/ fuel = 0 THEN <<>>
    ELSE <<head>> \o in_chain(edges, edges[head + 1].next_incoming_edge, fuel - 1)

outputs(g, node_idx) == out_chain(g.edges, g.nodes[node_idx].next_outgoing_edge, Len(g.edges))
inputs(g, node_idx) == in_chain(g.edges, g.nodes[node_idx].next_incoming_edge, Len(g.edges))

SeqToSet(s) == {s[i] : i \in 1..Len(s)}

\* Block::split: Vec::split_off(idx) leaves [0, idx) and returns [idx, len)
Block_split_keep(data, idx) == SubSeq(data, 1, idx)
\* mutant: the tail starts one word late
Block_split_late(data, idx) == SubSeq(data, idx + 2, Len(data))
Block_split(data, idx) == SubSeq(data, idx + 1, Len(data))

\* mutant: the loop that re-sources the moved edges is missing
split_node_from_kept(g, index, new_index, dist) ==
    LET node == g.nodes[index]
    IN  [nodes |-> [k \in DOMAIN g.nodes \cup {new_index} |->
                      IF k = new_index
                      THEN Node(Block_split(node.weight, dist), node.next_outgoing_edge, None)
                      ELSE IF k = index
                      THEN Node(Block_split_keep(node.weight, dist), None,
                                node.next_incoming_edge)
                      ELSE g.nodes[k]],
         edges |-> g.edges]

\* split_node with the splitter |block| block.split(dist)
split_node(g, index, new_index, dist) ==
    LET node == g.nodes[index]
        next_outgoing_edge == node.next_outgoing_edge
        moved == SeqToSet(out_chain(g.edges, next_outgoing_edge, Len(g.edges)))
    IN  [nodes |-> [k \in DOMAIN g.nodes \cup {new_index} |->
                      IF k = new_index
                      THEN Node(Block_split(node.weight, dist), next_outgoing_edge, None)
                      ELSE IF k = index
                      THEN Node(Block_split_keep(node.weight, dist), None,
                                node.next_incoming_edge)
                      ELSE g.nodes[k]],
         edges |-> [i \in 1..Len(g.edges) |->
                      IF (i - 1) \in moved
                      THEN [g.edges[i] EXCEPT !.from = new_index]
                      ELSE g.edges[i]]]

(***************************************************************************)
(* recurse_block.                                                          *)
(***************************************************************************)
\* `as u32` of an i32.  TLC cannot hold 2^32: the wrap of a negative value is
\* modelled modulo 2^30, which like 2^32 - 2^16 exceeds every array length.
as_u32(v) == IF v >= 0 THEN v ELSE 2^30 + v

\* ((idx + 1) as i32 + jump.0 as i32) as u32
dest_block_idx(idx, jump) == as_u32((idx + 1) + jump)

\* bc_raw[from..to] as a Vec (from, to are 0-based, to exclusive)
slice(bc, from, to) == SubSeq(bc, from + 1, to)

\* mutant: an offset inside the previous node counts as analysed, without a split
block_exists_no_split(g, idx) ==
    LET prev_idx == try_prev_node(g, idx)
    IN  IF prev_idx = None THEN "new"
        ELSE IF idx = prev_idx \/ Len(node_weight(g, prev_idx)) > idx - prev_idx
        THEN "exists"
        ELSE "new"

\* mutant: an offset at which a node starts is analysed again
block_exists_again(g, idx) ==
    LET prev_idx == try_prev_node(g, idx)
    IN  IF prev_idx = None \/ idx = prev_idx THEN "new"
        ELSE IF Len(node_weight(g, prev_idx)) > idx - prev_idx THEN "split"
        ELSE "new"

\* the pre-existence check of an entry offset: "exists" (a node starts at idx),
\* "split" (the previous node covers idx) or "new" (a block has to be scanned)
block_exists(g, idx) ==
    LET prev_idx == try_prev_node(g, idx)
    IN  IF prev_idx = None THEN "new"
        ELSE IF idx = prev_idx THEN "exists"
        ELSE IF Len(node_weight(g, prev_idx)) > idx - prev_idx THEN "split"
        ELSE "new"

\* mutant: the halves are not joined by an edge
split_block_no_edge(g, prev_idx, idx) == split_node(g, prev_idx, idx, idx - prev_idx)

\* the split of the previous node at idx and the edge that joins the halves
split_block(g, prev_idx, idx) ==
    add_edge(split_node(g, prev_idx, idx, idx - prev_idx), "Unconditional", prev_idx, idx)

\* mutant: a return always ends the block
ret_lookahead_always_end(bc, idx) == "end"

\* the RET arm's look-ahead: "continue" when the next instruction is a JMP,
\* "panic" when decoding it panics, "end" otherwise
ret_lookahead(bc, idx) ==
    IF idx + 2 <= Len(bc)
    THEN CASE disasm(bc[idx + 2]).name = "JMP" -> "continue"
           [] disasm(bc[idx + 2]).name = "panic" -> "panic"
           [] OTHER -> "end"
    ELSE "end"

\* the scan loop from instruction idx of the block started at block_start_idx:
\* the event that ends it, the instruction index it ends at, the decoded
\* instruction and prev_cond_idx
RECURSIVE scan(_, _, _, _)
scan(bc, next_block, idx, prev_cond_idx) ==
    IF idx >= Len(bc)
    THEN [ev |-> "end", idx |-> idx, name |-> "", jump |-> 0, prev_cond_idx |-> prev_cond_idx]
    ELSE IF idx = next_block
    THEN [ev |-> "next_block", idx |-> idx, name |-> "", jump |-> 0,
          prev_cond_idx |-> prev_cond_idx]
    ELSE LET op == disasm(bc[idx + 1])
             stop(ev) == [ev |-> ev, idx |-> idx, name |-> op.name, jump |-> op.jump,
                          prev_cond_idx |-> prev_cond_idx]
         IN  CASE op.name = "panic" -> stop("panic_unknown_opcode")
               [] op.name = "COND" -> scan(bc, next_block, idx + 1, idx)
               [] op.name \in {"ISNEXT", "ITERL", "FORI", "FORL", "UCLO", "JMP"} ->
                    stop("branch")
               [] op.name \in {"JITERL", "JFORL"} -> stop("panic_unimplemented")
               [] op.name = "RET" ->
                    CASE ret_lookahead(bc, idx) = "continue" ->
                           scan(bc, next_block, idx + 1, prev_cond_idx)
                      [] ret_lookahead(bc, idx) = "panic" -> stop("panic_unknown_opcode")
                      [] OTHER -> stop("ret")
               [] OTHER -> scan(bc, next_block, idx + 1, prev_cond_idx)

\* prev_cond_idx.map(|v| v + 1) == Some(idx)
jmp_is_conditional(prev_cond_idx, idx) == prev_cond_idx # None /\ prev_cond_idx + 1 = idx

\* mutant: the kinds of the numeric for header and back-edge are exchanged
first_edge_kind_for_swapped(name, cond) ==
    CASE name = "ISNEXT" -> "LoopIter"
      [] name = "ITERL" -> "LoopBody"
      [] name = "FORI" -> "LoopBody"
      [] name = "FORL" -> "LoopOut"
      [] name = "UCLO" -> "Unconditional"
      [] name = "JMP" -> IF cond THEN "True" ELSE "Unconditional"

\* mutant: the taken edge of a conditional jump is typed like a plain jump
first_edge_kind_jmp_plain(name, cond) ==
    CASE name = "ISNEXT" -> "LoopIter"
      [] name = "ITERL" -> "LoopBody"
      [] name = "FORI" -> "LoopOut"
      [] name = "FORL" -> "LoopBody"
      [] name = "UCLO" -> "Unconditional"
      [] name = "JMP" -> "Unconditional"

\* the kind of the edge added after the recursion on the jump target
first_edge_kind(name, cond) ==
    CASE name = "ISNEXT" -> "LoopIter"
      [] name = "ITERL" -> "LoopBody"
      [] name = "FORI" -> "LoopOut"
      [] name = "FORL" -> "LoopBody"
      [] name = "UCLO" -> "Unconditional"
      [] name = "JMP" -> IF cond THEN "True" ELSE "Unconditional"

\* mutant: the fallthrough of the numeric for header is typed Loop
second_edge_kind_fori_loop(name, cond) ==
    CASE name = "ITERL" -> "LoopOut"
      [] name = "FORI" -> "Loop"
      [] name = "FORL" -> "LoopOut"
      [] name = "JMP" /\ cond -> "False"
      [] OTHER -> "None"

\* mutant: the fallthrough of ITERL is typed like that of a conditional jump
second_edge_kind_iterl_false(name, cond) ==
    CASE name = "ITERL" -> "False"
      [] name = "FORI" -> "LoopBody"
      [] name = "FORL" -> "LoopOut"
      [] name = "JMP" /\ cond -> "False"
      [] OTHER -> "None"

\* the kind of the edge added after the recursion on idx + 1; None when the
\* arm does not recurse on idx + 1
second_edge_kind(name, cond) ==
    CASE name = "ITERL" -> "LoopOut"
      [] name = "FORI" -> "LoopBody"
      [] name = "FORL" -> "LoopOut"
      [] name = "JMP" /\ cond -> "False"
      [] OTHER -> "None"

\* graph.try_prev_node(idx as u32), re-read before every add_edge
current_block_start_idx(g, block_start_idx, idx) == try_prev_node(g, idx)

\* an activation of recurse_block: its argument, where it stands ("call": not
\* started, "ret1": in the recursion on the jump target, "ret2": in the
\* recursion on cur + 1), and the branch instruction it stopped at
Frame(idx, pc, block_start_idx, cur, name, cond, dest) ==
    [idx |-> idx, pc |-> pc, block_start_idx |-> block_start_idx, cur |-> cur,
     name |-> name, cond |-> cond, dest |-> dest]

Call(idx) == Frame(idx, "call", idx, 0, "", FALSE, 0)

\* return Ok(()) of the running activation
Return(g) ==
    /\ graph' = g
    /\ stack' = Tail(stack)
    /\ result' = IF Tail(stack) = <<>> THEN "ok" ELSE "running"

Panic(why) ==
    /\ result' = why
    /\ UNCHANGED <<graph, stack>>

\* from the entry of recurse_block(idx) to its first recursive call or its return
recurse_block_enter ==
    /\ result = "running"
    /\ stack # <<>>
    /\ Head(stack).pc = "call"
    /\ UNCHANGED <<bc_raw, rd, lifter>>
    /\ splits' = IF block_exists(graph, Head(stack).idx) = "split"
                 THEN splits \cup {Head(stack).idx} ELSE splits
    /\ LET idx == Head(stack).idx
           chk == block_exists(graph, idx)
           s == scan(bc_raw, try_next_node(graph, idx), idx, None)
       IN  CASE chk = "exists" -> Return(graph)
             [] chk = "split" -> Return(split_block(graph, try_prev_node(graph, idx), idx))
             [] chk = "new" /\ idx > Len(bc_raw) ->
                  \* bc_raw[block_start_idx..]: range start index out of range
                  Panic("panic_slice")
             [] chk = "new" /\ idx <= Len(bc_raw) /\ s.ev = "end" ->
                  Return(add_node(graph, idx, slice(bc_raw, idx, Len(bc_raw))))
             [] chk = "new" /\ idx <= Len(bc_raw) /\ s.ev = "next_block" ->
                  Return(add_edge(add_node(graph, idx, slice(bc_raw, idx, s.idx)),
                                  "Unconditional", idx, s.idx))
             [] chk = "new" /\ idx <= Len(bc_raw) /\ s.ev = "ret" ->
                  Return(add_node(graph, idx, slice(bc_raw, idx, s.idx + 1)))
             [] chk = "new" /\ idx <= Len(bc_raw) /\ s.ev = "branch" ->
                  /\ graph' = add_node(graph, idx, slice(bc_raw, idx, s.idx + 1))
                  /\ stack' = <<Call(dest_block_idx(s.idx, s.jump)),
                                Frame(idx, "ret1", idx, s.idx, s.name,
                                      jmp_is_conditional(s.prev_cond_idx, s.idx),
                                      dest_block_idx(s.idx, s.jump))>> \o Tail(stack)
                  /\ result' = "running"
             [] OTHER -> Panic(s.ev)

\* from the return of a recursive call to the next recursive call or the return
recurse_block_resume ==
    /\ result = "running"
    /\ stack # <<>>
    /\ Head(stack).pc \in {"ret1", "ret2"}
    /\ UNCHANGED <<bc_raw, splits, rd, lifter>>
    /\ LET f == Head(stack)
           from == current_block_start_idx(graph, f.block_start_idx, f.cur)
           to == IF f.pc = "ret1" THEN f.dest ELSE f.cur + 1
           kind == IF f.pc = "ret1" THEN first_edge_kind(f.name, f.cond)
                   ELSE second_edge_kind(f.name, f.cond)
       IN  IF from = None \/ ~edge_ok(graph, from, to)
           THEN Panic("panic_unwrap")
           ELSE IF f.pc = "ret1" /\ second_edge_kind(f.name, f.cond) # "None"
           THEN /\ graph' = add_edge(graph, kind, from, to)
                /\ stack' = <<Call(f.cur + 1), [f EXCEPT !.pc = "ret2"]>> \o Tail(stack)
                /\ result' = "running"
           ELSE Return(add_edge(graph, kind, from, to))

Next == recurse_block_enter \/ recurse_block_resume

(***************************************************************************)
(* Inputs: every instruction array of at most MaxLen words over a set of   *)
(* words; jump operands are the biased encodings of -MaxOff..MaxOff.       *)
(***************************************************************************)
Offsets == (0 - MaxOff)..MaxOff

Words(jump_ops, plain_ops) ==
    {Ins(op, JumpBias + o) : op \in jump_ops, o \in Offsets}
        \cup {Ins(op, 0) : op \in plain_ops}

Arrays(n, words) == [1..n -> words]

Branches(bc) == {i \in 1..Len(bc) : get_op(bc[i]) \in JumpOps}

\* resolve_basic_blocks(bc_raw) on an array over words
Resolve(words) ==
    /\ \E n \in 0..MaxLen : bc_raw \in Arrays(n, words)
    /\ graph = GraphNew
    /\ stack = <<Call(0)>>
    /\ result = "running"
    /\ splits = {}
    /\ rd = NoReader
    /\ lifter = NoLifter

\* conditional and unconditional jumps, returns and straight-line code
Init == Resolve(Words({OP_JMP}, {OP_ISLT, OP_MOV, OP_RET0}))

Spec == Init /\ [][Next]_vars

\* numeric for loops
InitFor ==
    /\ Resolve(Words({OP_FORI, OP_FORL}, {OP_MOV, OP_RET0}))
    /\ Cardinality(Branches(bc_raw)) <= MaxBranch

SpecFor == InitFor /\ [][Next]_vars

\* iterator loops
InitIter ==
    /\ Resolve(Words({OP_ISNEXT, OP_ITERL}, {OP_MOV, OP_RET0}))
    /\ Cardinality(Branches(bc_raw)) <= MaxBranch

SpecIter == InitIter /\ [][Next]_vars

(***************************************************************************)
(* The graph substrate on its own: any sequence of add_node on a fresh     *)
(* key, add_edge between existing keys and split_node onto an absent key.  *)
(* Node weights are blocks of one word, which the splitter splits at dist. *)
(***************************************************************************)
KeySet == 0..MaxKey

g_add_node(index) ==
    /\ result = "graph"
    /\ ~exists(graph, index)
    /\ graph' = add_node(graph, index, <<Ins(OP_MOV, 0)>>)
    /\ UNCHANGED <<bc_raw, stack, result, splits, rd, lifter>>

g_add_edge(weight, from, to) ==
    /\ result = "graph"
    /\ Len(graph.edges) < MaxEdges
    /\ edge_ok(graph, from, to)
    /\ graph' = add_edge(graph, weight, from, to)
    /\ UNCHANGED <<bc_raw, stack, result, splits, rd, lifter>>

g_split_node(index, new_index, dist) ==
    /\ result = "graph"
    /\ exists(graph, index)
    /\ ~exists(graph, new_index)
    /\ dist <= Len(node_weight(graph, index))
    /\ graph' = split_node(graph, index, new_index, dist)
    /\ UNCHANGED <<bc_raw, stack, result, splits, rd, lifter>>

InitGraph ==
    /\ bc_raw = <<>>
    /\ graph = GraphNew
    /\ stack = <<>>
    /\ result = "graph"
    /\ splits = {}
    /\ rd = NoReader
    /\ lifter = NoLifter

NextGraph ==
    \/ \E index \in KeySet : g_add_node(index)
    \/ \E weight \in {"True", "False"}, from, to \in KeySet : g_add_edge(weight, from, to)
    \/ \E index, new_index \in KeySet, dist \in 0..1 : g_split_node(index, new_index, dist)

SpecGraph == InitGraph /\ [][NextGraph]_vars

(***************************************************************************)
(* Reading the graph.                                                      *)
(***************************************************************************)
Keys == DOMAIN graph.nodes

BlockLen(k) == Len(node_weight(graph, k))

\* the instruction indices of the block at key k
BlockRange(k) == k..(k + BlockLen(k) - 1)

\* the instruction at index i is in some block
Covered(i) == \E k \in Keys : i \in BlockRange(k)

\* the key of the block that holds instruction i
BlockOf(i) == CHOOSE k \in Keys : i \in BlockRange(k)

\* the outgoing edges of the block at key k as <<kind, to>> pairs
OutEdges(k) ==
    LET out == outputs(graph, k)
    IN  [n \in 1..Len(out) |-> <<graph.edges[out[n] + 1].weight, graph.edges[out[n] + 1].to>>]

NameAt(i) == disasm(bc_raw[i + 1]).name

DestOf(i) == dest_block_idx(i, disasm(bc_raw[i + 1]).jump)

RECURSIVE SumLen(_)
SumLen(S) == IF S = {} THEN 0
             ELSE LET k == CHOOSE x \in S : TRUE IN BlockLen(k) + SumLen(S \ {k})

(***************************************************************************)
(* C1: in every state of a run of resolve_basic_blocks, every node at key  *)
(* k holds exactly the words bc_raw[k .. k+len), also after a split; the   *)
(* ranges of distinct nodes are pairwise disjoint, so every instruction    *)
(* index is in at most one block and the lengths sum to at most len(bc).   *)
(***************************************************************************)
C1_BlocksAreDisjointSlices ==
    /\ \A k \in Keys :
          /\ k + BlockLen(k) <= Len(bc_raw)
          /\ node_weight(graph, k) = slice(bc_raw, k, k + BlockLen(k))
    /\ \A k1, k2 \in Keys : k1 # k2 => BlockRange(k1) \cap BlockRange(k2) = {}
    /\ \A i \in 0..(Len(bc_raw) - 1) : Cardinality({k \in Keys : i \in BlockRange(k)}) <= 1
    /\ SumLen(Keys) <= Len(bc_raw)

\* Ok was returned, a block was split and there are at least three blocks
C1_Witness ==
    /\ result = "ok"
    /\ splits # {}
    /\ Cardinality(Keys) >= 3

(***************************************************************************)
(* C2: in every state reached while resolve_basic_blocks runs and in the   *)
(* graph it returns, both endpoints of every edge are node keys; add_edge  *)
(* is never called with a missing endpoint, also when the block that holds *)
(* the branch instruction was split by a recursive call before.            *)
(***************************************************************************)
C2_EdgeEndpointsExist ==
    /\ result # "panic_unwrap"
    /\ \A i \in 1..Len(graph.edges) :
          graph.edges[i].from \in Keys /\ graph.edges[i].to \in Keys

\* the first edge of a two-way branch has just been added, from a block that
\* the recursion on the jump target split off the block the scan had made
C2_Witness ==
    /\ Len(stack) >= 2
    /\ stack[1].pc = "call"
    /\ stack[2].pc = "ret2"
    /\ Len(graph.edges) > 0
    /\ graph.edges[Len(graph.edges)].weight = first_edge_kind(stack[2].name, stack[2].cond)
    /\ graph.edges[Len(graph.edges)].from # stack[2].block_start_idx
    /\ graph.edges[Len(graph.edges)].from \in splits

(***************************************************************************)
(* C3: in the graph resolve_basic_blocks returns, a JMP at index cur whose *)
(* immediately preceding instruction is a comparison or unary test ends    *)
(* its block with exactly two outgoing edges, True to dest and False to    *)
(* cur + 1; every other JMP ends its block with exactly one outgoing edge, *)
(* Unconditional to dest.                                                  *)
(***************************************************************************)
EndsBlock(cur) == BlockOf(cur) + BlockLen(BlockOf(cur)) = cur + 1

\* the instruction before cur is a comparison or unary test that the resolver reached
PrecededByCond(cur) == cur > 0 /\ NameAt(cur - 1) = "COND" /\ Covered(cur - 1)

C3_JmpEdges ==
    result = "ok" =>
        \A cur \in 0..(Len(bc_raw) - 1) :
            (NameAt(cur) = "JMP" /\ Covered(cur)) =>
                /\ EndsBlock(cur)
                /\ IF PrecededByCond(cur)
                   THEN /\ Len(OutEdges(BlockOf(cur))) = 2
                        /\ SeqToSet(OutEdges(BlockOf(cur)))
                              = {<<"True", DestOf(cur)>>, <<"False", cur + 1>>}
                   ELSE OutEdges(BlockOf(cur)) = << <<"Unconditional", DestOf(cur)>> >>

(***************************************************************************)
(* C4: in the graph resolve_basic_blocks returns, the block ending in      *)
(* FORI/JFORI at cur has exactly two outgoing edges, LoopOut to its jump   *)
(* target and LoopBody to cur + 1; the block ending in FORL/IFORL at cur   *)
(* has exactly two, LoopBody to its jump target and LoopOut to cur + 1.    *)
(***************************************************************************)
C4_NumericForEdges ==
    result = "ok" =>
        \A cur \in 0..(Len(bc_raw) - 1) :
            (NameAt(cur) \in {"FORI", "FORL"} /\ Covered(cur)) =>
                /\ EndsBlock(cur)
                /\ Len(OutEdges(BlockOf(cur))) = 2
                /\ SeqToSet(OutEdges(BlockOf(cur))) =
                      IF NameAt(cur) = "FORI"
                      THEN {<<"LoopOut", DestOf(cur)>>, <<"LoopBody", cur + 1>>}
                      ELSE {<<"LoopBody", DestOf(cur)>>, <<"LoopOut", cur + 1>>}

\* Ok was returned for an array in which a FORI and a FORL were both reached
\* and the block of one of them was split off
C4_Witness ==
    /\ result = "ok"
    /\ \E i, j \in 0..(Len(bc_raw) - 1) :
          /\ NameAt(i) = "FORI" /\ Covered(i)
          /\ NameAt(j) = "FORL" /\ Covered(j)
          /\ BlockOf(j) \in splits

PendingTarget(f) == IF f.pc = "ret1" THEN f.dest ELSE f.cur + 1

C6_FollowStep ==
    (result = "running" /\ Len(stack) >= 2 /\ Head(stack).pc = "call") =>
        LET idx == Head(stack).idx
            k == try_prev_node(graph, idx)
        IN  /\ PendingTarget(stack[2]) = idx
            /\ (k # None /\ k < idx /\ idx < k + BlockLen(k)) =>
                  /\ idx \notin Keys
                  /\ DOMAIN graph'.nodes = Keys \cup {idx}
                  /\ graph'.nodes[k].weight = slice(bc_raw, k, idx)
                  /\ graph'.nodes[idx].weight = slice(bc_raw, idx, k + BlockLen(k))
                  /\ \A j \in Keys \ {k} : graph'.nodes[j] = graph.nodes[j]
                  /\ Len(graph'.edges) = Len(graph.edges) + 1
                  /\ graph'.edges[Len(graph'.edges)].weight = "Unconditional"
                  /\ graph'.edges[Len(graph'.edges)].from = k
                  /\ graph'.edges[Len(graph'.edges)].to = idx
                  /\ stack' = Tail(stack)
                  /\ result' = "running"
            /\ idx \in Keys =>
                  /\ graph' = graph
                  /\ stack' = Tail(stack)
                  /\ result' = "running"

C6_EdgeStep ==
    (result = "running" /\ stack # <<>> /\ Head(stack).pc \in {"ret1", "ret2"}) =>
        /\ result' # "panic_unwrap"
        /\ DOMAIN graph'.nodes = Keys
        /\ \A j \in Keys : graph'.nodes[j].weight = graph.nodes[j].weight
        /\ Len(graph'.edges) = Len(graph.edges) + 1
        /\ SubSeq(graph'.edges, 1, Len(graph.edges)) = graph.edges
        /\ graph'.edges[Len(graph'.edges)].to = PendingTarget(Head(stack))
        /\ PendingTarget(Head(stack)) \in Keys
        /\ (Head(stack).pc = "ret1" /\ first_edge_kind(Head(stack).name, Head(stack).cond)
                = "Unconditional") => stack' = Tail(stack)

C6_SplitOnceAndJoin == [][C6_FollowStep /\ C6_EdgeStep]_vars

\* Ok was returned; two jumps have the same target, a node that a split made:
\* one of them split the block, the other found the node in place
C6_Witness ==
    /\ result = "ok"
    /\ \E i, j \in 1..Len(graph.edges) :
          /\ graph.edges[i].weight = "True"
          /\ graph.edges[i].to \in splits
          /\ graph.edges[j].weight = "Unconditional"
          /\ graph.edges[j].to = graph.edges[i].to
          /\ BlockLen(graph.edges[j].from) > 0
          /\ NameAt(graph.edges[j].from + BlockLen(graph.edges[j].from) - 1) = "JMP"

(***************************************************************************)
(* C7: split_node(old_key, new_key, splitter) with new_key > old_key and   *)
(* no node at new_key: every edge that had from = old_key has from =       *)
(* new_key; the new node's outgoing list is the old node's former outgoing *)
(* list in the same order; the old node's outgoing list is empty; the old  *)
(* node's incoming list and every edge's to are unchanged; the new node    *)
(* has no incoming edges; the number of edges is unchanged; no other node  *)
(* is changed.                                                             *)
(***************************************************************************)
C7_SplitPost(old_key, new_key) ==
    /\ Len(graph'.edges) = Len(graph.edges)
    /\ \A i \in 1..Len(graph.edges) :
          /\ graph.edges[i].from = old_key => graph'.edges[i].from = new_key
          /\ graph'.edges[i].to = graph.edges[i].to
    /\ outputs(graph', new_key) = outputs(graph, old_key)
    /\ outputs(graph', old_key) = <<>>
    /\ inputs(graph', old_key) = inputs(graph, old_key)
    /\ inputs(graph', new_key) = <<>>
    /\ DOMAIN graph'.nodes = Keys \cup {new_key}
    /\ \A j \in Keys \ {old_key} : graph'.nodes[j] = graph.nodes[j]

C7_SplitNodeFrame ==
    [][\A old_key, new_key \in KeySet, dist \in 0..1 :
          (new_key > old_key /\ g_split_node(old_key, new_key, dist))
              => C7_SplitPost(old_key, new_key)]_vars

\* a node made by a split carries two outgoing edges, one of them a loop back
\* to the node it was split from, which keeps it as an incoming edge
C7_Witness ==
    \E old_key, new_key \in Keys :
        /\ new_key > old_key
        /\ Len(outputs(graph, new_key)) = 2
        /\ outputs(graph, old_key) = <<>>
        /\ inputs(graph, new_key) = <<>>
        /\ Len(inputs(graph, old_key)) >= 1
        /\ node_weight(graph, old_key) = <<>>

(***************************************************************************)
(* C8: for a numeric for loop FORI a,+N; BODY...; FORL a,-N followed by    *)
(* straight-line code, resolve_basic_blocks produces four nodes (header,   *)
(* body, back-edge, exit) with edges header -LoopBody-> body, header       *)
(* -LoopOut-> exit, back-edge -LoopBody-> body, back-edge -LoopOut-> exit. *)
(***************************************************************************)
\* bc is FORI +N; N - 1 body instructions; FORL -N; a straight-line exit
IsNumericFor(bc, N) ==
    /\ N >= 2
    /\ Len(bc) >= N + 2
    /\ bc[1] = Ins(OP_FORI, JumpBias + N)
    /\ \A i \in 2..N : get_op(bc[i]) = OP_MOV
    /\ bc[N + 1] = Ins(OP_FORL, JumpBias - N)
    /\ \A i \in (N + 2)..Len(bc) : get_op(bc[i]) \in {OP_MOV, OP_RET0}

LoopSizes == 2..MaxLen

EdgeSet == {<<graph.edges[i].from, graph.edges[i].weight, graph.edges[i].to>> :
               i \in 1..Len(graph.edges)}

\* the claim as written: the body and the back-edge are two nodes
C8_FourNodes ==
    \A N \in LoopSizes :
        (result = "ok" /\ IsNumericFor(bc_raw, N)) =>
            /\ Keys = {0, 1, N, N + 1}
            /\ EdgeSet = {<<0, "LoopBody", 1>>, <<0, "LoopOut", N + 1>>,
                          <<N, "LoopBody", 1>>, <<N, "LoopOut", N + 1>>}

\* amended: three nodes, the body and the FORL that ends it are one block
C8_ThreeNodes ==
    \A N \in LoopSizes :
        (result = "ok" /\ IsNumericFor(bc_raw, N)) =>
            /\ Keys = {0, 1, N + 1}
            /\ BlockRange(0) = {0}
            /\ BlockRange(1) = 1..N
            /\ Len(graph.edges) = 4
            /\ EdgeSet = {<<0, "LoopBody", 1>>, <<0, "LoopOut", N + 1>>,
                          <<1, "LoopBody", 1>>, <<1, "LoopOut", N + 1>>}

C8_Witness ==
    /\ result = "ok"
    /\ \E N \in LoopSizes : IsNumericFor(bc_raw, N)

(***************************************************************************)
(* C9: a return opcode at index cur ends its block at cur with no outgoing *)
(* edge, except when bc[cur+1] exists and is a JMP: then the return does   *)
(* not end the block and the return and the JMP end up in the same block.  *)
(***************************************************************************)
FollowedByJmp(cur) == cur + 1 < Len(bc_raw) /\ NameAt(cur + 1) = "JMP"

\* the claim as written
C9_RetSameBlockAsJmp ==
    result = "ok" =>
        \A cur \in 0..(Len(bc_raw) - 1) :
            (NameAt(cur) = "RET" /\ Covered(cur)) =>
                IF FollowedByJmp(cur)
                THEN Covered(cur + 1) /\ BlockOf(cur) = BlockOf(cur + 1)
                ELSE EndsBlock(cur) /\ OutEdges(BlockOf(cur)) = <<>>

\* amended: the return and the JMP are in one block unless the JMP starts a
\* block of its own (it is a jump target); then the return's block ends at
\* cur with the one Unconditional edge to the JMP's block
C9_RetEndsBlockUnlessJmp ==
    result = "ok" =>
        \A cur \in 0..(Len(bc_raw) - 1) :
            (NameAt(cur) = "RET" /\ Covered(cur)) =>
                IF FollowedByJmp(cur)
                THEN /\ Covered(cur + 1)
                     /\ \/ BlockOf(cur) = BlockOf(cur + 1)
                        \/ /\ cur + 1 \in Keys
                           /\ EndsBlock(cur)
                           /\ OutEdges(BlockOf(cur)) = << <<"Unconditional", cur + 1>> >>
                ELSE EndsBlock(cur) /\ OutEdges(BlockOf(cur)) = <<>>

\* Ok was returned; one return shares its block with the JMP after it and
\* another return ends its block
C9_Witness ==
    /\ result = "ok"
    /\ \E i, j \in 0..(Len(bc_raw) - 1) :
          /\ NameAt(i) = "RET" /\ Covered(i) /\ FollowedByJmp(i)
          /\ BlockOf(i) = BlockOf(i + 1)
          /\ NameAt(j) = "RET" /\ Covered(j) /\ ~FollowedByJmp(j)

(***************************************************************************)
(* C10: when a branch instruction's computed target lies outside the       *)
(* bytecode, resolve_basic_blocks returns the error InvalidJumpTarget: it  *)
(* neither aborts nor returns a graph with a node beyond the bytecode end. *)
(***************************************************************************)
\* some activation is waiting for (or has followed) a target beyond len(bc)
TargetOutside ==
    \E n \in 1..Len(stack) :
        stack[n].pc \in {"ret1", "ret2"} /\ PendingTarget(stack[n]) > Len(bc_raw)

C10_InvalidJumpTarget ==
    /\ (result # "running" /\ TargetOutside) => result = "InvalidJumpTarget"
    /\ result = "ok" => \A k \in Keys : k <= Len(bc_raw)

(***************************************************************************)
(* C11: opcode-level failures are returned as error values and are never   *)
(* aborts: disasm of a word whose opcode byte is above 0x60 returns        *)
(* Err(UnknownInsOpcode), resolve_basic_blocks returns that error when its *)
(* scan meets such a word, and returns Err(UnexpectedInsOpcode) when the   *)
(* scan meets JITERL or JFORL.                                             *)
(***************************************************************************)
\* the resolver over arrays that hold unknown and unsupported opcodes
InitOpcode ==
    /\ Resolve(Words({OP_JMP}, {OP_RET0, OP_JFORL, OP_JITERL, OP_FUNCCW + 1}))
    /\ Cardinality(Branches(bc_raw)) <= MaxBranch

SpecOpcode == InitOpcode /\ [][Next]_vars

\* disasm never panics on a word of the array, and no run of the resolver
\* ends in the panic of an unknown or of an unimplemented opcode
C11_OpcodeErrorsReturned ==
    /\ \A i \in 1..Len(bc_raw) : disasm(bc_raw[i]).name # "panic"
    /\ result \notin {"panic_unknown_opcode", "panic_unimplemented"}

(***************************************************************************)
(* The bytecode reader (src/src/bytecode_reader.rs).  A stream is a        *)
(* sequence of bytes 0..255 and a position: the number of bytes consumed.  *)
(* A u32 is kept as the set of the positions of its one bits, which keeps  *)
(* its width: a left shift drops the bits that leave 0..31.                *)
(***************************************************************************)
U32Bits == 0..31

\* the u32 (or u8) of a natural number below 2^31
U(n) == {i \in 0..30 : (n \div 2^i) % 2 = 1}

\* (x << sh) as u32, for sh < 32
shl(x, sh) == {i + sh : i \in x} \cap U32Bits

\* x & y, x | y on u32
and(x, y) == x \cap y
or(x, y) == x \cup y

\* x & !y
and_not(x, y) == x \ y

\* the value of a u32 `as usize` where it is used as a length or a count:
\* every value from Huge up is kept as Huge, beyond the length of any stream
Huge == 1048576

RECURSIVE SumBits(_)
SumBits(x) == IF x = {} THEN 0 ELSE LET i == Max(x) IN 2^i + SumBits(x \ {i})

as_usize(x) == IF \E i \in x : i >= 20 THEN Huge ELSE SumBits(x)

\* read_exact of n bytes at pos: possible exactly when n bytes are left
can_read(data, pos, n) == pos + n <= Len(data)

\* the largest shift read_uleb128 accepts
read_uleb128_limit == 28

\* read_uleb128 from its loop head, with result and shift as they stand;
\* sh is the last shift applied (history only)
RECURSIVE read_uleb128_loop(_, _, _, _)
read_uleb128_loop(data, pos, result_, shift) ==
    IF shift > read_uleb128_limit
    THEN [res |-> "InvalidULeb128", val |-> {}, pos |-> pos, sh |-> shift - 7]
    ELSE IF ~can_read(data, pos, 1)
    THEN [res |-> "IO", val |-> {}, pos |-> pos, sh |-> shift - 7]
    ELSE LET b == data[pos + 1]
             r == or(result_, shl(U(b % 128), shift))
         IN  IF b < 128
             THEN [res |-> "Ok", val |-> r, pos |-> pos + 1, sh |-> shift]
             ELSE read_uleb128_loop(data, pos + 1, r, shift + 7)

\* mutant: the first group is shifted like the second
read_uleb128_shift_from_7(data, pos) == read_uleb128_loop(data, pos, {}, 7)

read_uleb128(data, pos) == read_uleb128_loop(data, pos, {}, 0)

\* the builds of the crate: with overflow checks (debug) a shift by 32 or
\* more panics, without them (release) the shift amount is taken modulo 32
Builds == {"debug", "release"}

\* the loop of read_uleb128_33, with v and sh as they stand
RECURSIVE read_uleb128_33_loop(_, _, _, _, _, _)
read_uleb128_33_loop(data, pos, v, sh, tmp, build) ==
    IF ~can_read(data, pos, 1)
    THEN [res |-> "IO", val |-> {}, first |-> tmp, pos |-> pos, sh |-> sh - 7]
    ELSE IF sh >= 32 /\ build = "debug"
    THEN [res |-> "panic_shl_overflow", val |-> {}, first |-> tmp, pos |-> pos + 1,
          sh |-> sh]
    ELSE LET b == data[pos + 1]
             r == or(v, shl(U(b % 128), sh % 32))
         IN  IF b < 128
             THEN [res |-> "Ok", val |-> r, first |-> tmp, pos |-> pos + 1, sh |-> sh]
             ELSE read_uleb128_33_loop(data, pos + 1, r, sh + 7, tmp, build)

\* mutant: v keeps the continuation bit of the first byte (no v &= 0x3f)
read_uleb128_33_unmasked(data, pos, build) ==
    IF ~can_read(data, pos, 1)
    THEN [res |-> "IO", val |-> {}, first |-> 0, pos |-> pos, sh |-> 0]
    ELSE LET tmp == data[pos + 1]
             v == tmp \div 2
         IN  IF v >= 64
             THEN read_uleb128_33_loop(data, pos + 1, U(v), 6, tmp, build)
             ELSE [res |-> "Ok", val |-> U(v), first |-> tmp, pos |-> pos + 1, sh |-> 0]

\* read_uleb128_33: the value and the first byte
read_uleb128_33(data, pos, build) ==
    IF ~can_read(data, pos, 1)
    THEN [res |-> "IO", val |-> {}, first |-> 0, pos |-> pos, sh |-> 0]
    ELSE LET tmp == data[pos + 1]
             v == tmp \div 2
         IN  IF v >= 64
             THEN read_uleb128_33_loop(data, pos + 1, U(v % 64), 6, tmp, build)
             ELSE [res |-> "Ok", val |-> U(v), first |-> tmp, pos |-> pos + 1, sh |-> 0]

\* the one element of a singleton: Only({e(x) : x \in {v}}) is e(v), with v
\* evaluated once
Only(S) == CHOOSE v \in S : TRUE

\* n consecutive read_uleb128, stopping at the first that fails
RECURSIVE read_uleb128_n(_, _, _)
read_uleb128_n(data, pos, n) ==
    IF n = 0
    THEN [res |-> "Ok", vals |-> <<>>, pos |-> pos]
    ELSE Only({ IF r.res # "Ok"
                THEN [res |-> r.res, vals |-> <<>>, pos |-> r.pos]
                ELSE Only({ [res |-> t.res, vals |-> <<r.val>> \o t.vals, pos |-> t.pos] :
                            t \in {read_uleb128_n(data, r.pos, n - 1)} }) :
                r \in {read_uleb128(data, pos)} })

(***************************************************************************)
(* String::from_utf8_lossy(bytes).to_string(): the String is kept as its   *)
(* UTF-8 bytes.  Well-formed sequences are copied; every maximal ill-      *)
(* formed part is replaced by U+FFFD, the bytes EF BF BD.                  *)
(***************************************************************************)
REPLACEMENT == <<239, 191, 189>>

\* the byte at index i (from 0), 0 beyond the end
safe_get(bytes, i) == IF i < Len(bytes) THEN bytes[i + 1] ELSE 0

is_cont(b) == b >= 128 /\ b <= 191

\* the range of the second byte of a sequence of three or four led by b
second_ok(b, c) ==
    CASE b = 224 -> c >= 160 /\ c <= 191
      [] b = 237 -> c >= 128 /\ c <= 159
      [] b = 240 -> c >= 144 /\ c <= 191
      [] b = 244 -> c >= 128 /\ c <= 143
      [] OTHER -> is_cont(c)

\* utf8 char width of a leading byte, 0 when it cannot lead
utf8_char_width(b) ==
    CASE b < 128 -> 1
      [] b >= 194 /\ b <= 223 -> 2
      [] b >= 224 /\ b <= 239 -> 3
      [] b >= 240 /\ b <= 244 -> 4
      [] OTHER -> 0

\* the well-formed length at i (0 when ill-formed) and the bytes to skip
utf8_chunk(bytes, i) ==
    LET b == bytes[i + 1]
        w == utf8_char_width(b)
    IN  CASE w = 1 -> [valid |-> 1, skip |-> 1]
          [] w = 0 -> [valid |-> 0, skip |-> 1]
          [] w = 2 -> IF is_cont(safe_get(bytes, i + 1))
                      THEN [valid |-> 2, skip |-> 2] ELSE [valid |-> 0, skip |-> 1]
          [] w = 3 -> IF ~second_ok(b, safe_get(bytes, i + 1))
                      THEN [valid |-> 0, skip |-> 1]
                      ELSE IF ~is_cont(safe_get(bytes, i + 2))
                      THEN [valid |-> 0, skip |-> 2]
                      ELSE [valid |-> 3, skip |-> 3]
          [] w = 4 -> IF ~second_ok(b, safe_get(bytes, i + 1))
                      THEN [valid |-> 0, skip |-> 1]
                      ELSE IF ~is_cont(safe_get(bytes, i + 2))
                      THEN [valid |-> 0, skip |-> 2]
                      ELSE IF ~is_cont(safe_get(bytes, i + 3))
                      THEN [valid |-> 0, skip |-> 3]
                      ELSE [valid |-> 4, skip |-> 4]

RECURSIVE from_utf8_lossy_at(_, _)
from_utf8_lossy_at(bytes, i) ==
    IF i >= Len(bytes)
    THEN <<>>
    ELSE LET c == utf8_chunk(bytes, i)
         IN  (IF c.valid > 0 THEN SubSeq(bytes, i + 1, i + c.valid) ELSE REPLACEMENT)
                 \o from_utf8_lossy_at(bytes, i + c.skip)

from_utf8_lossy(bytes) == from_utf8_lossy_at(bytes, 0)

(***************************************************************************)
(* The constants of a prototype.  A constant is a record with its variant  *)
(* in k; strings hold the bytes of the String.                             *)
(***************************************************************************)
GC_TYPE_PROTO_CHILD == 0
GC_TYPE_TABLE == 1
GC_TYPE_I64 == 2
GC_TYPE_U64 == 3
GC_TYPE_COMPLEX == 4
GC_TYPE_STR == 5

TABLE_ENTRY_TYPE_NIL == 0
TABLE_ENTRY_TYPE_FALSE == 1
TABLE_ENTRY_TYPE_TRUE == 2
TABLE_ENTRY_TYPE_INT == 3
TABLE_ENTRY_TYPE_NUM == 4
TABLE_ENTRY_TYPE_STR == 5

\* a failed read of the constant loaders
Fail(res, pos) == [res |-> res, pos |-> pos, val |-> <<>>]

\* r when it failed, else Ok at r.pos with the value val
OkVal(r, val) ==
    IF r.res # "Ok" THEN Fail(r.res, r.pos) ELSE [res |-> "Ok", pos |-> r.pos, val |-> val]

\* r, a read of several numbers, as the constant of variant k
Nums(r, k) == OkVal(r, [k |-> k, v |-> r.vals])

\* r, a read of a string or of a table, as the constant of variant k
Boxed(r, k) == OkVal(r, [k |-> k, v |-> r.val])

\* the string arm of both constant loaders: len bytes, then from_utf8_lossy
read_str(data, pos, len) ==
    IF ~can_read(data, pos, len)
    THEN Fail("IO", pos)
    ELSE [res |-> "Ok", pos |-> pos + len,
          val |-> from_utf8_lossy(SubSeq(data, pos + 1, pos + len))]

\* the arms of read_prototype_const_table_val for the tag read as tp
const_table_val_arm(data, tp, t) ==
    IF tp.res # "Ok" THEN Fail(tp.res, tp.pos)
    ELSE CASE t = TABLE_ENTRY_TYPE_NIL -> OkVal(tp, [k |-> "Nil"])
           [] t = TABLE_ENTRY_TYPE_FALSE -> OkVal(tp, [k |-> "False"])
           [] t = TABLE_ENTRY_TYPE_TRUE -> OkVal(tp, [k |-> "True"])
           [] t = TABLE_ENTRY_TYPE_INT -> Nums(read_uleb128_n(data, tp.pos, 1), "Int")
           [] t = TABLE_ENTRY_TYPE_NUM -> Nums(read_uleb128_n(data, tp.pos, 2), "Num")
           [] OTHER -> Boxed(read_str(data, tp.pos, t - TABLE_ENTRY_TYPE_STR), "String")

\* read_prototype_const_table_val
read_prototype_const_table_val(data, pos) ==
    Only({ const_table_val_arm(data, tp, as_usize(tp.val)) :
           tp \in {read_uleb128(data, pos)} })

\* r followed by the reads t: the values of both, or the first failure
Cons(r, t) ==
    IF t.res # "Ok" THEN Fail(t.res, t.pos)
    ELSE [res |-> "Ok", pos |-> t.pos, val |-> <<r.val>> \o t.val]

\* n consecutive read_prototype_const_table_val, stopping at the first failure
RECURSIVE read_table_vals(_, _, _)
read_table_vals(data, pos, n) ==
    IF n = 0
    THEN [res |-> "Ok", pos |-> pos, val |-> <<>>]
    ELSE Only({ IF r.res # "Ok" THEN Fail(r.res, r.pos)
                ELSE Cons(r, read_table_vals(data, r.pos, n - 1)) :
                r \in {read_prototype_const_table_val(data, pos)} })

\* the table pushed, of the array part read as array and the hash part as hash
const_table_of(array, hash) ==
    OkVal(hash, [k |-> "Table", array |-> array.val, hash |-> hash.val])

\* read_prototype_const_table: the table it pushes
read_prototype_const_table(data, pos) ==
    Only({ IF n.res # "Ok" THEN Fail(n.res, n.pos)
           ELSE Only({ IF array.res # "Ok" THEN Fail(array.res, array.pos)
                       ELSE const_table_of(array,
                               read_table_vals(data, array.pos, 2 * as_usize(n.vals[2]))) :
                       array \in {read_table_vals(data, n.pos, as_usize(n.vals[1]))} }) :
           n \in {read_uleb128_n(data, pos, 2)} })

\* the arms of read_prototype_global_constants for the tag read as tp
global_constant_arm(data, tp, t) ==
    IF tp.res # "Ok" THEN Fail(tp.res, tp.pos)
    ELSE CASE t = GC_TYPE_PROTO_CHILD -> OkVal(tp, [k |-> "ProtoChild"])
           [] t = GC_TYPE_TABLE -> read_prototype_const_table(data, tp.pos)
           [] t \in {GC_TYPE_I64, GC_TYPE_U64} ->
                Nums(read_uleb128_n(data, tp.pos, 2), "Num")
           [] t = GC_TYPE_COMPLEX -> Nums(read_uleb128_n(data, tp.pos, 4), "Complex")
           [] OTHER -> Boxed(read_str(data, tp.pos, t - GC_TYPE_STR), "Str")

\* one turn of the loop of read_prototype_global_constants: the constant pushed
read_global_constant(data, pos) ==
    Only({ global_constant_arm(data, tp, as_usize(tp.val)) :
           tp \in {read_uleb128(data, pos)} })

\* read_prototype_global_constants with n turns left: the constants pushed
RECURSIVE read_prototype_global_constants(_, _, _)
read_prototype_global_constants(data, pos, n) ==
    IF n = 0
    THEN [res |-> "Ok", pos |-> pos, val |-> <<>>]
    ELSE Only({ IF r.res # "Ok" THEN Fail(r.res, r.pos)
                ELSE Cons(r, read_prototype_global_constants(data, r.pos, n - 1)) :
                r \in {read_global_constant(data, pos)} })

\* the constant pushed for lo: Num(lo, hi) with hi the read that follows
num_of(r, hi) == OkVal(hi, [k |-> "Num", lo |-> r.val, hi |-> hi.val])

\* one turn of the loop of read_prototype_num_constants
read_num_constant(data, pos, build) ==
    Only({ IF r.res # "Ok" THEN Fail(r.res, r.pos)
           ELSE IF r.first % 2 = 1
           THEN num_of(r, read_uleb128(data, r.pos))
           ELSE OkVal(r, [k |-> "Int", lo |-> r.val]) :
           r \in {read_uleb128_33(data, pos, build)} })

\* read_prototype_num_constants with n turns left
RECURSIVE read_prototype_num_constants(_, _, _, _)
read_prototype_num_constants(data, pos, n, build) ==
    IF n = 0
    THEN [res |-> "Ok", pos |-> pos, val |-> <<>>]
    ELSE Only({ IF r.res # "Ok" THEN Fail(r.res, r.pos)
                ELSE Cons(r, read_prototype_num_constants(data, r.pos, n - 1, build)) :
                r \in {read_num_constant(data, pos, build)} })

(***************************************************************************)
(* The header and the prototype loader.                                    *)
(***************************************************************************)
BC_HEAD1 == 27
BC_HEAD2 == 76
BC_HEAD3 == 74
BC_VERSION == 2

BC_F_BE == 1
BC_F_STRIP == 2
BC_F_FFI == 4
BC_F_FR2 == 8
BC_F_KNOWN == BC_F_FR2 * 2 - 1

\* flags & !BC_F_KNOWN != 0 || flags & BC_F_FFI == 1
flags_rejected(flags) ==
    \/ and_not(flags, U(BC_F_KNOWN)) # {}
    \/ and(flags, U(BC_F_FFI)) = U(1)

\* the check of the flags read as flags
header_flags(flags) ==
    IF flags.res # "Ok"
    THEN [res |-> flags.res, pos |-> flags.pos, flags |-> {}]
    ELSE IF flags_rejected(flags.val)
    THEN [res |-> "InvalidHeaderBytes", pos |-> flags.pos, flags |-> {}]
    ELSE [res |-> "Ok", pos |-> flags.pos, flags |-> flags.val]

\* read_header: res, the position after it and the flags it stores
read_header(data, pos) ==
    IF ~can_read(data, pos, 4)
    THEN [res |-> "IO", pos |-> pos, flags |-> {}]
    ELSE IF \/ data[pos + 1] # BC_HEAD1
            \/ data[pos + 2] # BC_HEAD2
            \/ data[pos + 3] # BC_HEAD3
    THEN [res |-> "InvalidHeaderBytes", pos |-> pos + 4, flags |-> {}]
    ELSE IF data[pos + 4] # BC_VERSION
    THEN [res |-> "InvalidHeaderBytes", pos |-> pos + 4, flags |-> {}]
    ELSE header_flags(read_uleb128(data, pos + 4))

\* read_u32_into::<LittleEndian>: the words of 4 * n bytes from pos
read_u32_into(data, pos, n) ==
    [i \in 1..n |-> InsA(data[pos + 4 * (i - 1) + 1],
                         data[pos + 4 * (i - 1) + 2],
                         data[pos + 4 * (i - 1) + 3] + 256 * data[pos + 4 * (i - 1) + 4])]

\* read_u16_into::<LittleEndian>
read_u16_into(data, pos, n) ==
    [i \in 1..n |-> data[pos + 2 * (i - 1) + 1] + 256 * data[pos + 2 * (i - 1) + 2]]

\* ByteCodeProto::new() with the fields the loader has set
ByteCodeProto(size_up_values, size_global_consts, size_num_consts, words) ==
    [size_up_values |-> size_up_values, size_global_consts |-> size_global_consts,
     size_num_consts |-> size_num_consts, bc_raw |-> words,
     flow_graph |-> GraphNew, up_values |-> <<>>, global_consts |-> <<>>,
     num_consts |-> <<>>]

\* read_prototype_bytecode up to the call of resolve_basic_blocks, after the
\* three sizes read as sizes
prototype_bytecode(data, sizes, size_bc) ==
    IF sizes.res # "Ok"
    THEN [res |-> sizes.res, pos |-> sizes.pos, proto |-> <<>>]
    ELSE IF ~can_read(data, sizes.pos, 4 * size_bc)
    THEN [res |-> "IO", pos |-> sizes.pos, proto |-> <<>>]
    ELSE [res |-> "Ok", pos |-> sizes.pos + 4 * size_bc,
          proto |-> ByteCodeProto(data[4], as_usize(sizes.vals[1]),
                                  as_usize(sizes.vals[2]),
                                  read_u32_into(data, sizes.pos, size_bc))]

\* read_prototype up to the call of resolve_basic_blocks in
\* read_prototype_bytecode: the prototype header and the instruction words
read_prototype_head(data) ==
    IF ~can_read(data, 0, 4)
    THEN [res |-> "IO", pos |-> 0, proto |-> <<>>]
    ELSE Only({ prototype_bytecode(data, sizes,
                    IF sizes.res = "Ok" THEN as_usize(sizes.vals[3]) ELSE 0) :
                sizes \in {read_uleb128_n(data, 4, 3)} })

\* the prototype with its upvalues (read at pos) and the constants read as gc, nc
prototype_loaded(data, pos, proto, gc, nc) ==
    IF nc.res # "Ok"
    THEN [res |-> nc.res, pos |-> nc.pos, proto |-> proto]
    ELSE [res |-> "Ok", pos |-> nc.pos,
          proto |-> [proto EXCEPT
                       !.up_values = read_u16_into(data, pos, proto.size_up_values),
                       !.global_consts = gc.val,
                       !.num_consts = nc.val]]

\* read_prototype after read_prototype_bytecode: the upvalues and the
\* constants, read from pos
read_prototype_tail(data, pos, proto, build) ==
    IF ~can_read(data, pos, 2 * proto.size_up_values)
    THEN [res |-> "IO", pos |-> pos, proto |-> proto]
    ELSE Only({ IF gc.res # "Ok"
                THEN [res |-> gc.res, pos |-> gc.pos, proto |-> proto]
                ELSE prototype_loaded(data, pos, proto, gc,
                        read_prototype_num_constants(data, gc.pos,
                                                     proto.size_num_consts, build)) :
                gc \in {read_prototype_global_constants(data,
                            pos + 2 * proto.size_up_values, proto.size_global_consts)} })

(***************************************************************************)
(* read_bytecode_dump as a state machine.  rd holds the stream (data, pos),*)
(* the dump under construction, the bounded buffer proto_data of the       *)
(* record being loaded with the loader's position ppos in it, and res: ""  *)
(* while running, then "Ok" or the error or panic that ended the call.     *)
(* resolve_basic_blocks runs as the resolver's own actions on bc_raw.      *)
(* History only: hdr_end (position after the header), first_len_pos (where *)
(* the first prototype length was read), zero_at (position after the first *)
(* zero length), zero_n (the prototypes held then), rec_start and L        *)
(* (position after the last length field and the length it declared).     *)
(***************************************************************************)
\* most records (items) of a stream after its header
MaxItems == 3

ByteCodeDump == [flags |-> {}, name |-> <<>>, prototypes |-> <<>>]

Reader(data) ==
    [pc |-> "header", data |-> data, pos |-> 0, dump |-> ByteCodeDump, res |-> "",
     proto_data |-> <<>>, ppos |-> 0, proto |-> <<>>,
     hdr_end |-> None, first_len_pos |-> None, zero_at |-> None, zero_n |-> 0,
     rec_start |-> None, L |-> 0]

\* return of read_bytecode_dump
Done(res, pos) == [rd EXCEPT !.pc = "done", !.res = res, !.pos = pos]

\* read_header(data, &mut bc_dump)?
read_bytecode_dump_header ==
    /\ rd.pc = "header"
    /\ \E h \in {read_header(rd.data, rd.pos)} :
         rd' = IF h.res # "Ok"
               THEN Done(h.res, h.pos)
               ELSE [rd EXCEPT !.pc = "loop", !.pos = h.pos, !.hdr_end = h.pos,
                               !.dump.flags = h.flags]
    /\ UNCHANGED <<bc_raw, graph, stack, result, splits, lifter>>

\* mutant: the prototype loader is handed the rest of the stream
proto_data_unbounded(data, pos, proto_len) == SubSeq(data, pos + 1, Len(data))

\* the bounded buffer: the proto_len bytes read at pos
proto_data_of(data, pos, proto_len) == SubSeq(data, pos + 1, pos + proto_len)

\* read_prototype on the bounded buffer buf, up to its call of
\* resolve_basic_blocks; head is what it read up to there
load_prototype(seen, from, proto_len, buf, head) ==
    IF head.res # "Ok"
    THEN /\ rd' = [seen EXCEPT !.pc = "done", !.res = head.res,
                               !.pos = from + proto_len,
                               !.rec_start = from, !.L = proto_len,
                               !.proto_data = buf, !.ppos = head.pos]
         /\ UNCHANGED <<bc_raw, graph, stack, result, splits, lifter>>
    ELSE /\ rd' = [seen EXCEPT !.pc = "resolve", !.pos = from + proto_len,
                               !.rec_start = from, !.L = proto_len,
                               !.proto_data = buf, !.ppos = head.pos,
                               !.proto = head.proto]
         /\ bc_raw' = head.proto.bc_raw
         /\ graph' = GraphNew
         /\ stack' = <<Call(0)>>
         /\ result' = "running"
         /\ splits' = {}
         /\ UNCHANGED lifter

\* the rest of the loop's turn for the nonzero length proto_len read up to
\* from: read_exact into the bounded buffer, then read_prototype on it
load_record(seen, from, proto_len) ==
    IF ~can_read(rd.data, from, proto_len)
    THEN /\ rd' = [seen EXCEPT !.pc = "done", !.res = "IO", !.pos = Len(rd.data)]
         /\ UNCHANGED <<bc_raw, graph, stack, result, splits, lifter>>
    ELSE \E buf \in {proto_data_of(rd.data, from, proto_len)} :
         \E head \in {read_prototype_head(buf)} :
            load_prototype(seen, from, proto_len, buf, head)

\* one turn of the loop, up to the call of resolve_basic_blocks inside
\* read_prototype, or to the return of read_bytecode_dump
read_bytecode_dump_loop ==
    /\ rd.pc = "loop"
    /\ \E len \in {read_uleb128(rd.data, rd.pos)} :
       \E seen \in {[rd EXCEPT !.first_len_pos = IF @ = None THEN rd.pos ELSE @]} :
         IF len.res # "Ok"
         THEN \* else { break; } and Ok(bc_dump)
              /\ rd' = [seen EXCEPT !.pc = "done", !.res = "Ok", !.pos = len.pos]
              /\ UNCHANGED <<bc_raw, graph, stack, result, splits, lifter>>
         ELSE IF as_usize(len.val) = 0
         THEN \* continue
              /\ rd' = [seen EXCEPT !.pos = len.pos,
                                    !.zero_at = IF @ = None THEN len.pos ELSE @,
                                    !.zero_n = IF seen.zero_at = None
                                               THEN Len(rd.dump.prototypes) ELSE @]
              /\ UNCHANGED <<bc_raw, graph, stack, result, splits, lifter>>
         ELSE load_record(seen, len.pos, as_usize(len.val))

\* the end of the loop's turn for the rest of read_prototype read as tail
push_prototype(tail) ==
    IF tail.res # "Ok"
    THEN [rd EXCEPT !.pc = "done", !.res = tail.res, !.ppos = tail.pos]
    ELSE [rd EXCEPT !.pc = "loop", !.ppos = tail.pos, !.proto = tail.proto,
                    !.dump.prototypes = Append(@, tail.proto)]

\* from the return of resolve_basic_blocks to the end of the loop's turn
read_prototype_resume ==
    /\ rd.pc = "resolve"
    /\ result # "running"
    /\ \E build \in Builds :
         rd' = IF result # "ok"
               THEN Done(result, rd.pos)
               ELSE push_prototype(
                       read_prototype_tail(rd.proto_data, rd.ppos,
                           [rd.proto EXCEPT !.flow_graph = graph], build))
    /\ result' = "idle"
    /\ UNCHANGED <<bc_raw, graph, stack, splits, lifter>>

NextDump ==
    \/ read_bytecode_dump_header
    \/ read_bytecode_dump_loop
    \/ recurse_block_enter
    \/ recurse_block_resume
    \/ read_prototype_resume

(***************************************************************************)
(* Streams: a header, then at most MaxItems items, cut at any byte.        *)
(***************************************************************************)
\* a prototype without instructions, upvalues and constants
EmptyPayload == <<0, 0, 0, 0, 0, 0, 0>>
\* a prototype of the single instruction JMP to itself
LoopPayload == <<0, 0, 0, 0, 0, 0, 1, 88, 0, 255, 127>>
\* a prototype that declares one instruction and holds none
ShortPayload == <<0, 0, 0, 0, 0, 0, 1>>

Items ==
    { <<0>>,                        \* the zero length
      <<7>> \o EmptyPayload,
      <<11>> \o LoopPayload,
      <<7>> \o ShortPayload,
      <<135, 0>> \o EmptyPayload,   \* the length 7 in two bytes
      <<8>> \o EmptyPayload \o <<0>>, \* one byte more than the loader reads
      <<1, 65>> }                   \* a chunk name "A"

RECURSIVE Flatten(_)
Flatten(ss) == IF ss = <<>> THEN <<>> ELSE Head(ss) \o Flatten(Tail(ss))

FlagBytes == {0, 1, 2, 4, 6, 8, 15, 16}

Headers ==
    {<<m1, m2, m3, v, f>> : m1 \in {BC_HEAD1, 0}, m2 \in {BC_HEAD2, 0},
                            m3 \in {BC_HEAD3, 0}, v \in {BC_VERSION, 1},
                            f \in FlagBytes}

GoodHeaders == {<<BC_HEAD1, BC_HEAD2, BC_HEAD3, BC_VERSION, f>> : f \in {0, BC_F_STRIP}}

InitDump ==
    /\ \E n \in 0..MaxItems :
         \E hdr \in Headers, body \in [1..n -> Items] :
            /\ hdr \in GoodHeaders \/ body = <<>>
            /\ \E cut \in 0..Len(hdr \o Flatten(body)) :
                  rd = Reader(SubSeq(hdr \o Flatten(body), 1, cut))
    /\ bc_raw = <<>>
    /\ graph = GraphNew
    /\ stack = <<>>
    /\ result = "idle"
    /\ splits = {}
    /\ lifter = NoLifter

SpecDump == InitDump /\ [][NextDump]_vars

(***************************************************************************)
(* C12: read_header accepts a header exactly when the magic is 1B 4C 4A,   *)
(* the version is 2 and the flags are acceptable, and otherwise returns    *)
(* InvalidHeaderBytes; flags are rejected when a bit outside 0x0F is set,  *)
(* when the FFI bit 0x04 is set and when the big-endian bit 0x01 is set.   *)
(***************************************************************************)
\* the flags the statement accepts: inside the mask, neither FFI nor BE
FlagsAcceptable(f) ==
    /\ and_not(U(f), U(BC_F_KNOWN)) = {}
    /\ and(U(f), U(BC_F_FFI)) = {}
    /\ and(U(f), U(BC_F_BE)) = {}

\* read_header has run on a stream that holds the five bytes of a header
HeaderRead == rd.pc \notin {"none", "header"} /\ Len(rd.data) >= 5

C12_HeaderAcceptance ==
    HeaderRead =>
        /\ rd.hdr_end # None <=>
              /\ SubSeq(rd.data, 1, 4) = <<BC_HEAD1, BC_HEAD2, BC_HEAD3, BC_VERSION>>
              /\ FlagsAcceptable(rd.data[5])
        /\ rd.hdr_end = None => rd.res = "InvalidHeaderBytes"

(***************************************************************************)
(* C13: the prototype loop of read_bytecode_dump stops at the first        *)
(* prototype length that is zero: after it no further byte of the stream   *)
(* is consumed and the dump holds exactly the prototypes of the records    *)
(* before it (1B 4C 4A 02 02 00 yields flags = 2 and no prototypes).       *)
(***************************************************************************)
C13_StopsAtZeroLength ==
    /\ rd.pc # "none" /\ rd.zero_at # None =>
          /\ rd.pos = rd.zero_at
          /\ Len(rd.dump.prototypes) = rd.zero_n
    /\ (rd.pc = "done" /\ rd.data = <<BC_HEAD1, BC_HEAD2, BC_HEAD3, BC_VERSION, 2, 0>>) =>
          /\ rd.res = "Ok"
          /\ rd.dump.flags = U(2)
          /\ rd.dump.prototypes = <<>>

(***************************************************************************)
(* C14: when the stripped flag 0x02 is not set the loader reads the chunk  *)
(* name (a ULEB128 length, then that many bytes) right after the flags and *)
(* stores it as the dump's name, and when it is set no chunk-name byte is  *)
(* read: the first prototype length is read from the byte after the name.  *)
(***************************************************************************)
\* the chunk name field at the end of the header: its length as read there
ChunkNameLen == read_uleb128(rd.data, rd.hdr_end)

C14_ChunkNameRead ==
    (rd.pc # "none" /\ rd.first_len_pos # None) =>
        IF and(rd.dump.flags, U(BC_F_STRIP)) # {}
        THEN rd.first_len_pos = rd.hdr_end /\ rd.dump.name = <<>>
        ELSE (/\ ChunkNameLen.res = "Ok"
              /\ can_read(rd.data, ChunkNameLen.pos, as_usize(ChunkNameLen.val))) =>
                 /\ rd.first_len_pos = ChunkNameLen.pos + as_usize(ChunkNameLen.val)
                 /\ rd.dump.name = SubSeq(rd.data, ChunkNameLen.pos + 1,
                                          ChunkNameLen.pos + as_usize(ChunkNameLen.val))

(***************************************************************************)
(* C15: truncated input aborts the whole dump: when the stream ends before *)
(* the terminating zero-length record (inside the header, inside a         *)
(* prototype length field or inside a prototype payload), and when loading *)
(* a prototype fails, read_bytecode_dump returns the error and no dump.    *)
(***************************************************************************)
C15_TruncationIsAnError ==
    (rd.pc = "done" /\ rd.res = "Ok") => rd.zero_at # None

(***************************************************************************)
(* C16: while a record of declared length L is loaded, the prototype       *)
(* loader consumes at most the L bytes after the length field; a read past *)
(* them fails with IO for that prototype and consumes no byte of the next  *)
(* record, and after a record the stream stands exactly L bytes past the   *)
(* length field whatever the loader consumed.                              *)
(***************************************************************************)
\* the length field read at the position the loop's turn started from
DeclaredLen == read_uleb128(rd.data, rd.pos)

\* a turn of the loop that got a record's bytes into the bounded buffer
RecordStep == rd.pc = "loop" /\ rd'.rec_start # rd.rec_start

C16_BoundedStep ==
    /\ RecordStep =>
          /\ rd'.rec_start = DeclaredLen.pos
          /\ rd'.L = as_usize(DeclaredLen.val)
          /\ rd'.pos = rd'.rec_start + rd'.L
          /\ rd'.ppos <= rd'.L
          \* the payload declares an instruction it does not hold
          /\ SubSeq(rd.data, rd'.rec_start + 1, rd'.rec_start + rd'.L) = ShortPayload
                => rd'.pc = "done" /\ rd'.res = "IO"
    /\ (rd.pc = "resolve" /\ rd'.pc # "resolve") =>
          /\ rd'.pos = rd.rec_start + rd.L
          /\ rd'.ppos <= rd.L

C16_BoundedBuffer == [][C16_BoundedStep]_vars

\* after a record was loaded and pushed, a record whose payload declares
\* more than it holds failed with IO while bytes of the next record were left
\* in the stream
C16_Witness ==
    /\ rd.pc = "done"
    /\ rd.dump.prototypes # <<>>
    /\ rd.res = "IO"
    /\ rd.proto_data = ShortPayload
    /\ rd.ppos <= rd.L
    /\ rd.pos = rd.rec_start + rd.L
    /\ rd.pos < Len(rd.data)

(***************************************************************************)
(* The variable-length decoders on their own.  rd holds the input (data),  *)
(* the number it encodes when it was made by encoding one (n, with the     *)
(* length enc_len of the encoding; enc_len is 0 otherwise), and after the  *)
(* call the function called (fn), the build and what it returned (out).    *)
(***************************************************************************)
\* longest raw input
MaxBytes == 6

\* the bytes of the raw inputs
ByteSet == {1, 126, 128, 255}

\* the numbers encoded: the u32 with bits among these
BitPos == {0, 6, 7, 13, 14, 27, 28, 31}

\* the 7-bit group g of the u32 n
group(n, g) == SumBits({j \in 0..6 : 7 * g + j \in n})

\* the ULEB128 encoding of n in len bytes, len large enough for n
encode(n, len) == [i \in 1..len |-> group(n, i - 1) + (IF i < len THEN 128 ELSE 0)]

fits(n, len) == \A i \in n : i < 7 * len

Input(data, n, enc_len) ==
    [pc |-> "input", data |-> data, n |-> n, enc_len |-> enc_len,
     fn |-> "", build |-> "", out |-> <<>>]

InitUleb ==
    /\ \/ \E n \in SUBSET BitPos, len \in 1..5, rest \in {<<>>, <<128>>} :
            /\ fits(n, len)
            /\ rd = Input(encode(n, len) \o rest, n, len)
       \/ \E k \in 0..MaxBytes : \E data \in [1..k -> ByteSet] :
            rd = Input(data, {}, 0)
    /\ bc_raw = <<>>
    /\ graph = GraphNew
    /\ stack = <<>>
    /\ result = "idle"
    /\ splits = {}
    /\ lifter = NoLifter

Returned(fn, build, out) ==
    /\ rd' = [rd EXCEPT !.pc = "done", !.fn = fn, !.build = build, !.out = out]
    /\ UNCHANGED <<bc_raw, graph, stack, result, splits, lifter>>

call_read_uleb128 ==
    /\ rd.pc = "input"
    /\ Returned("read_uleb128", "", read_uleb128(rd.data, 0))

call_read_uleb128_33 ==
    /\ rd.pc = "input"
    /\ \E build \in Builds :
          Returned("read_uleb128_33", build, read_uleb128_33(rd.data, 0, build))

\* read_prototype_num_constants of a prototype with size_num_consts = 1
call_read_prototype_num_constants ==
    /\ rd.pc = "input"
    /\ \E build \in Builds :
          Returned("read_prototype_num_constants", build,
                   read_prototype_num_constants(rd.data, 0, 1, build))

NextUleb ==
    \/ call_read_uleb128
    \/ call_read_uleb128_33
    \/ call_read_prototype_num_constants

SpecUleb == InitUleb /\ [][NextUleb]_vars

Called(fn) == rd.pc = "done" /\ rd.fn = fn

\* the first k bytes all carry the continuation bit
Continued(data, k) == Len(data) >= k /\ \A i \in 1..k : data[i] >= 128

(***************************************************************************)
(* C17: read_uleb128 inverts the ULEB128 encoding: decoding any encoding   *)
(* of a 32-bit n in 1 to 5 bytes returns n and consumes exactly the bytes  *)
(* of the encoding; an input whose fifth byte still has the continuation   *)
(* bit is rejected with InvalidULeb128 without consuming a sixth byte.     *)
(***************************************************************************)
C17_Uleb128RoundTrip ==
    Called("read_uleb128") =>
        /\ rd.enc_len > 0 =>
              /\ rd.out.res = "Ok"
              /\ rd.out.val = rd.n
              /\ rd.out.pos = rd.enc_len
        /\ Continued(rd.data, 5) =>
              /\ rd.out.res = "InvalidULeb128"
              /\ rd.out.pos = 5

\* a number with bit 31 was decoded from five bytes that a further byte follows
C17_Witness ==
    /\ Called("read_uleb128")
    /\ rd.enc_len > 0
    /\ 31 \in rd.n /\ 0 \in rd.n
    /\ rd.enc_len = 5
    /\ Len(rd.data) = 6
    /\ rd.out.val = rd.n
    /\ rd.out.pos = 5

(***************************************************************************)
(* C18: read_uleb128_33 and the numeric-constant loader: the low bit of    *)
(* the first byte selects the variant (1: Num(lo, hi) with hi a following  *)
(* ULEB128, 0: Int(lo)); lo takes its bits 0-5 from bits 1-6 of the first  *)
(* byte, and when bit 7 of the first byte is set further 7-bit groups are  *)
(* added at shifts 6, 13, 20, 27 until a byte without continuation bit; a  *)
(* single first byte v < 0x80 with low bit 0 yields Int(v >> 1).           *)
(***************************************************************************)
\* the number of bytes of the 33-bit value at the head of data: up to the
\* first byte without continuation bit (0 when there is none)
Len33(data) ==
    IF \E i \in 1..Len(data) : data[i] < 128
    THEN Min({i \in 1..Len(data) : data[i] < 128})
    ELSE 0

\* lo as the statement gives it, for a value of k bytes
Lo33(data, k) ==
    {j \in 0..5 : (j + 1) \in U(data[1])}
        \cup UNION {{6 + 7 * (i - 2) + j : j \in U(data[i] % 128)} \cap U32Bits : i \in 2..k}

C18_Uleb33Decoding ==
    LET k == Len33(rd.data)
    IN  /\ (Called("read_uleb128_33") /\ k \in 1..5) =>
              /\ rd.out.res = "Ok"
              /\ rd.out.val = Lo33(rd.data, k)
              /\ rd.out.first = rd.data[1]
              /\ rd.out.pos = k
        /\ (Called("read_prototype_num_constants") /\ k \in 1..5) =>
              IF rd.data[1] % 2 = 0
              THEN /\ rd.out.res = "Ok"
                   /\ rd.out.val = <<[k |-> "Int", lo |-> Lo33(rd.data, k)]>>
                   /\ (k = 1 => rd.out.val[1].lo = U(rd.data[1] \div 2))
              ELSE LET hi == read_uleb128(rd.data, k)
                   IN  /\ rd.out.res = hi.res
                       /\ hi.res = "Ok" =>
                            rd.out.val = <<[k |-> "Num", lo |-> Lo33(rd.data, k),
                                            hi |-> hi.val]>>

\* a Num was loaded whose lo has groups at the shifts 6 to 27
C18_Witness ==
    /\ Called("read_prototype_num_constants")
    /\ Len33(rd.data) = 5
    /\ rd.out.res = "Ok"
    /\ rd.out.val[1].k = "Num"
    /\ {6, 13, 20, 27} \subseteq rd.out.val[1].lo
    /\ rd.out.val[1].hi # {}

(***************************************************************************)
(* C19: read_uleb128 and read_uleb128_33 report a short read as IO and a   *)
(* malformed, over-long encoding as InvalidULeb128: for every byte         *)
(* sequence each returns a value or one of these two errors, and neither   *)
(* ever shifts a group by 32 bits or more.                                 *)
(***************************************************************************)
C19_DecoderFailures ==
    (Called("read_uleb128") \/ Called("read_uleb128_33")) =>
        /\ rd.out.res \in {"Ok", "IO", "InvalidULeb128"}
        /\ rd.out.sh < 32
        /\ Continued(rd.data, Len(rd.data)) /\ Len(rd.data) < 5 => rd.out.res = "IO"
        /\ Continued(rd.data, 6) => rd.out.res = "InvalidULeb128"

(***************************************************************************)
(* The string constants on their own.  The input is one entry of tag       *)
(* 5 + len followed by the len bytes str, either by itself or as the key   *)
(* and the value of the one hash pair of a constant table (tag 1, no array *)
(* part).  rd holds the input, str, and after the call fn and out.         *)
(***************************************************************************)
\* longest string constant
MaxStr == 3

\* the bytes of the strings: ASCII, a continuation byte, the lead byte of a
\* sequence of two, a byte that never occurs in UTF-8
StrBytes == {65, 128, 195, 255}

StrEntry(str) == <<GC_TYPE_STR + Len(str)>> \o str

StrInput(kind, str) ==
    [pc |-> "input", kind |-> kind, str |-> str,
     data |-> IF kind = "entry"
              THEN StrEntry(str)
              ELSE <<GC_TYPE_TABLE, 0, 1>> \o StrEntry(str) \o StrEntry(str),
     fn |-> "", out |-> <<>>]

InitConst ==
    /\ \E k \in 0..MaxStr : \E str \in [1..k -> StrBytes], kind \in {"entry", "table"} :
          rd = StrInput(kind, str)
    /\ bc_raw = <<>>
    /\ graph = GraphNew
    /\ stack = <<>>
    /\ result = "idle"
    /\ splits = {}
    /\ lifter = NoLifter

StrReturned(fn, out) ==
    /\ rd' = [rd EXCEPT !.pc = "done", !.fn = fn, !.out = out]
    /\ UNCHANGED <<bc_raw, graph, stack, result, splits, lifter>>

\* read_prototype_global_constants of a prototype with size_global_consts = 1
call_read_prototype_global_constants ==
    /\ rd.pc = "input"
    /\ StrReturned("read_prototype_global_constants",
                   read_prototype_global_constants(rd.data, 0, 1))

call_read_prototype_const_table_val ==
    /\ rd.pc = "input"
    /\ rd.kind = "entry"
    /\ StrReturned("read_prototype_const_table_val",
                   read_prototype_const_table_val(rd.data, 0))

NextConst ==
    \/ call_read_prototype_global_constants
    \/ call_read_prototype_const_table_val

SpecConst == InitConst /\ [][NextConst]_vars

(***************************************************************************)
(* C20: string constants are retained losslessly: for every global-        *)
(* constant entry with tag t >= 5 and every constant-table key or value    *)
(* with tag t >= 5 the stored string is exactly the t - 5 bytes read from  *)
(* the stream, unchanged, whatever the bytes (valid UTF-8 or not).         *)
(***************************************************************************)
C20_StringsLossless ==
    /\ (Called("read_prototype_const_table_val") /\ rd.kind = "entry") =>
          rd.out = [res |-> "Ok", pos |-> Len(rd.data),
                    val |-> [k |-> "String", v |-> rd.str]]
    /\ (Called("read_prototype_global_constants") /\ rd.kind = "entry") =>
          rd.out = [res |-> "Ok", pos |-> Len(rd.data),
                    val |-> <<[k |-> "Str", v |-> rd.str]>>]
    /\ (Called("read_prototype_global_constants") /\ rd.kind = "table") =>
          rd.out = [res |-> "Ok", pos |-> Len(rd.data),
                    val |-> <<[k |-> "Table", array |-> <<>>,
                               hash |-> <<[k |-> "String", v |-> rd.str],
                                          [k |-> "String", v |-> rd.str]>>]>>]

(***************************************************************************)
(* The lifter (src/src/lifting.rs).  analyze_bc_proto copies the structure *)
(* of the prototype's bytecode graph and walks the blocks in key order,    *)
(* pushing IR statements into the block of the same key.  One step lifts   *)
(* one instruction.                                                        *)
(***************************************************************************)
\* most slot bases (operand A) and literals (operands B, C) explored
MaxBase == 1
MaxLit == 2
\* longest instruction array of the call specification
MaxCalls == 2

OP_USETV == 46
OP_USETN == 48
OP_CALLM == 65
OP_CALL == 66

\* mutant: the copy keeps the keys and the edges and drops the list heads
structure_copy_no_heads(g) ==
    [nodes |-> [k \in DOMAIN g.nodes |-> Node(<<>>, None, None)],
     edges |-> g.edges]

\* Graph::structure_copy: the keys and the edge list heads of every node
\* with T::default() as weight, and a clone of the edges
structure_copy(g) ==
    [nodes |-> [k \in DOMAIN g.nodes |->
                  Node(<<>>, g.nodes[k].next_outgoing_edge, g.nodes[k].next_incoming_edge)],
     edges |-> g.edges]

\* ir::Var and the expressions and statements the modelled arms build
Var(index) == <<"v", index>>
Expr_Var(index) == <<"Var", Var(index)>>
Expr_Num(val) == <<"Num", val>>
Expr_lt(a, b) == <<"Lt", a, b>>
Insn_If(expr) == [insn |-> "If", expr |-> expr]
Insn_set_var(var, expr) == [insn |-> "SetVars", vars |-> <<var>>, expr |-> expr]
Insn_Call(returns, args) == [insn |-> "Call", returns |-> returns, args |-> args]
Insn_Return(res) == [insn |-> "Return", res |-> res]

VarInfo_new(index, table, up_value) ==
    [name |-> <<"slot_", index>>, table |-> table, up_value |-> up_value, usage_cnt |-> 0]

\* Lifter::var_for_slot: the slots table after the call (it returns Var(index))
var_for_slot(slots, index, table, up_value) ==
    IF index \in DOMAIN slots
    THEN [slots EXCEPT ![index].usage_cnt = @ + 1]
    ELSE [k \in DOMAIN slots \cup {index} |->
            IF k = index THEN VarInfo_new(index, table, up_value) ELSE slots[k]]

\* for idx in from..to { self.var_for_slot(idx, false, false) }
RECURSIVE var_for_slots(_, _, _)
var_for_slots(slots, from, to) ==
    IF from >= to THEN slots
    ELSE var_for_slots(var_for_slot(slots, from, FALSE, FALSE), from + 1, to)

\* the Var of every idx in from..to (to exclusive)
vars_of(from, to) == [i \in 1..(to - from) |-> Var(from + i - 1)]
exprs_of(from, to) == [i \in 1..(to - from) |-> Expr_Var(from + i - 1)]

\* what one arm of the match does: the statements pushed, the slots table
\* and multres after it
Lifted(insns, slots, multres) == [insns |-> insns, slots |-> slots, multres |-> multres]

\* the first loop of the CALL and CALLM arms: the return slots for b != 0
call_returns(a, b) == IF b # 0 THEN vars_of(a, a + b - 1) ELSE <<>>
call_returns_slots(slots, a, b) == IF b # 0 THEN var_for_slots(slots, a, a + b - 1) ELSE slots

lift_CALLM(a, b, c, slots, multres) ==
    Lifted(<<Insn_Call(call_returns(a, b),
                       IF c + multres > 0 THEN exprs_of(a, a + b + multres) ELSE <<>>)>>,
           call_returns_slots(slots, a, b), multres)

lift_CALL(a, b, c, slots, multres) ==
    IF c > 1
    THEN Lifted(<<Insn_Call(call_returns(a, b)
                               \o (IF b = 0 THEN vars_of(a + 1, a + c) ELSE <<>>),
                            <<Expr_Var(a)>> \o exprs_of(a + 1, a + c))>>,
                IF b = 0
                THEN var_for_slots(call_returns_slots(slots, a, b), a + 1, a + c)
                ELSE call_returns_slots(slots, a, b),
                IF b = 0 THEN c - 1 ELSE multres)
    ELSE Lifted(<<Insn_Call(call_returns(a, b), <<Expr_Var(a)>>)>>,
                call_returns_slots(slots, a, b), multres)

\* the arm of analyze_bc_proto's match taken for raw_ins
lift_insn(raw_ins, slots, multres) ==
    CASE get_op(raw_ins) = OP_ISLT ->
           Lifted(<<Insn_If(Expr_lt(Expr_Var(get_a(raw_ins)), Expr_Var(get_d(raw_ins))))>>,
                  slots, multres)
      [] get_op(raw_ins) = OP_MOV ->
           Lifted(<<Insn_set_var(Var(get_a(raw_ins)), Expr_Var(get_d(raw_ins)))>>,
                  var_for_slot(slots, get_a(raw_ins), FALSE, FALSE), multres)
      [] get_op(raw_ins) = OP_USETV ->
           Lifted(<<Insn_set_var(Var(get_a(raw_ins)), Expr_Var(get_d(raw_ins)))>>,
                  var_for_slot(slots, get_a(raw_ins), FALSE, TRUE), multres)
      [] get_op(raw_ins) = OP_USETN ->
           Lifted(<<Insn_set_var(Var(get_a(raw_ins)), Expr_Num(get_d(raw_ins)))>>,
                  var_for_slot(slots, get_a(raw_ins), FALSE, TRUE), multres)
      [] get_op(raw_ins) = OP_CALLM ->
           lift_CALLM(get_a(raw_ins), get_b(raw_ins), get_c(raw_ins), slots, multres)
      [] get_op(raw_ins) = OP_CALL ->
           lift_CALL(get_a(raw_ins), get_b(raw_ins), get_c(raw_ins), slots, multres)
      [] get_op(raw_ins) = OP_RET0 -> Lifted(<<Insn_Return(<<>>)>>, slots, multres)
      [] get_op(raw_ins) \in {OP_UCLO, OP_JMP} -> Lifted(<<>>, slots, multres)

\* Lifter::new, with the fields the model adds: the IR graph under
\* construction and the place of the two loops (block_idx is None when the
\* outer loop is over, pos is the index of the next instruction of the block)
Lifter_new ==
    [pc |-> "new", slots |-> [k \in {} |-> VarInfo_new(0, FALSE, FALSE)], multres |-> 0,
     graph |-> GraphNew, block_idx |-> None, pos |-> 0]

\* the next instruction at or after (block_idx, pos) in iter_node_weights
\* order: blocks in ascending key order, exhausted blocks skipped
RECURSIVE cursor(_, _, _)
cursor(g, block_idx, pos) ==
    IF block_idx = None THEN [block_idx |-> None, pos |-> 0]
    ELSE IF pos < Len(node_weight(g, block_idx)) THEN [block_idx |-> block_idx, pos |-> pos]
    ELSE cursor(g, try_next_node(g, block_idx + 1), 0)

\* graph.node_weight_mut(block_idx).unwrap() followed by push_insn of insns
push_insns(g, block_idx, insns) == [g EXCEPT !.nodes[block_idx].weight = @ \o insns]

\* the entry of analyze_bc_proto on the prototype whose graph the resolver
\* returned: the structure copy
analyze_bc_proto_enter ==
    /\ result = "ok"
    /\ lifter.pc = "new"
    /\ \E at \in {cursor(graph, try_next_node(graph, 0), 0)} :
          lifter' = [lifter EXCEPT !.pc = "lifting", !.graph = structure_copy(graph),
                                   !.block_idx = at.block_idx, !.pos = at.pos]
    /\ UNCHANGED <<bc_raw, graph, stack, result, splits, rd>>

\* one turn of the inner loop: the instruction at (block_idx, pos)
analyze_bc_proto_insn ==
    /\ lifter.pc = "lifting"
    /\ lifter.block_idx # None
    /\ \E l \in {lift_insn(node_weight(graph, lifter.block_idx)[lifter.pos + 1],
                           lifter.slots, lifter.multres)},
          at \in {cursor(graph, lifter.block_idx, lifter.pos + 1)} :
          lifter' = [lifter EXCEPT !.slots = l.slots, !.multres = l.multres,
                                   !.graph = push_insns(@, lifter.block_idx, l.insns),
                                   !.block_idx = at.block_idx, !.pos = at.pos]
    /\ UNCHANGED <<bc_raw, graph, stack, result, splits, rd>>

\* Ok(graph)
analyze_bc_proto_return ==
    /\ lifter.pc = "lifting"
    /\ lifter.block_idx = None
    /\ lifter' = [lifter EXCEPT !.pc = "done"]
    /\ UNCHANGED <<bc_raw, graph, stack, result, splits, rd>>

NextLift ==
    \/ recurse_block_enter
    \/ recurse_block_resume
    \/ analyze_bc_proto_enter
    \/ analyze_bc_proto_insn
    \/ analyze_bc_proto_return

\* resolve_basic_blocks on an array over words, then analyze_bc_proto of a
\* new Lifter on the result
ResolveAndLift(len, words) ==
    /\ \E n \in 0..len : bc_raw \in Arrays(n, words)
    /\ graph = GraphNew
    /\ stack = <<Call(0)>>
    /\ result = "running"
    /\ splits = {}
    /\ rd = NoReader
    /\ lifter = Lifter_new

\* jumps, comparisons, moves and returns: graphs of several blocks
InitLift == ResolveAndLift(MaxLen, Words({OP_JMP}, {OP_ISLT, OP_MOV, OP_RET0}))

SpecLift == InitLift /\ [][NextLift]_vars

\* the instruction the lifter is about to lift
CurIns == node_weight(graph, lifter.block_idx)[lifter.pos + 1]

\* the lifter lifts an instruction of opcode op in this step
Lifts(ops) ==
    /\ lifter.pc = "lifting"
    /\ lifter.block_idx # None
    /\ get_op(CurIns) \in ops
    /\ lifter' # lifter

\* the statements of the IR block at the lifter's place, before the step
CurBlock == node_weight(lifter.graph, lifter.block_idx)

(***************************************************************************)
(* C21: the IR graph of the lifter is isomorphic to the bytecode graph:    *)
(* structure_copy yields the same node keys with empty payloads and the    *)
(* same edges (from, to, kind), enumerated by outputs(k) and inputs(k) in  *)
(* the same order for every key k; lifting changes node payloads only and  *)
(* leaves the source graph unchanged.                                      *)
(***************************************************************************)
Isomorphic(ir, bc) ==
    /\ DOMAIN ir.nodes = DOMAIN bc.nodes
    /\ Len(ir.edges) = Len(bc.edges)
    /\ \A i \in 1..Len(bc.edges) :
          /\ ir.edges[i].from = bc.edges[i].from
          /\ ir.edges[i].to = bc.edges[i].to
          /\ ir.edges[i].weight = bc.edges[i].weight
    /\ \A k \in DOMAIN bc.nodes :
          /\ outputs(ir, k) = outputs(bc, k)
          /\ inputs(ir, k) = inputs(bc, k)

C21_Step ==
    lifter' # lifter =>
        /\ graph' = graph
        /\ Isomorphic(lifter'.graph, graph')
        /\ lifter.pc = "new" =>
              \A k \in DOMAIN lifter'.graph.nodes : node_weight(lifter'.graph, k) = <<>>
        /\ lifter.pc = "lifting" =>
              \A k \in DOMAIN lifter.graph.nodes :
                  /\ lifter'.graph.nodes[k].next_outgoing_edge
                        = lifter.graph.nodes[k].next_outgoing_edge
                  /\ lifter'.graph.nodes[k].next_incoming_edge
                        = lifter.graph.nodes[k].next_incoming_edge

C21_IrGraphIsomorphic == [][C21_Step]_vars

\* the lifter returned the IR graph of a bytecode graph of at least three
\* blocks, one of them made by a split, with a node of two outgoing edges,
\* and pushed statements into a block
C21_Witness ==
    /\ lifter.pc = "done"
    /\ Cardinality(DOMAIN lifter.graph.nodes) >= 3
    /\ splits # {}
    /\ \E k \in DOMAIN lifter.graph.nodes : Len(outputs(lifter.graph, k)) = 2
    /\ \E k \in DOMAIN lifter.graph.nodes : node_weight(lifter.graph, k) # <<>>

(***************************************************************************)
(* Calls and slot references: arrays of at most MaxCalls words over CALL   *)
(* and CALLM with every base and literal of the bounds, MOV and USETV and  *)
(* USETN on every base, a return and a JMP to the next instruction.        *)
(***************************************************************************)
BaseSet == 0..MaxBase
LitSet == 0..MaxLit

\* B is byte 2 and C byte 3 of the word (get_b, get_c)
CallWords == {InsA(op, a, b + 256 * c) : op \in {OP_CALL, OP_CALLM}, a \in BaseSet,
                                         b \in LitSet, c \in LitSet}

SlotWords == {InsA(op, a, 0) : op \in {OP_MOV, OP_USETV, OP_USETN}, a \in BaseSet}

InitCall ==
    ResolveAndLift(MaxCalls,
                   CallWords \cup SlotWords \cup {Ins(OP_JMP, JumpBias), Ins(OP_RET0, 0)})

SpecCall == InitCall /\ [][NextLift]_vars

\* the IR block at the lifter's place after the step
CurBlockAfter == node_weight(lifter'.graph, lifter.block_idx)

\* the argument list of CALL(a, b, c): the function slot and the slots
\* a+1 .. a+c-1
FixedArgs(a, c) == <<Expr_Var(a)>> \o exprs_of(a + 1, a + c)

(***************************************************************************)
(* C22: lifting CALL(a, b, c) pushes exactly one Call statement; its       *)
(* return list is Var(a)..Var(a+b-2) and is empty when b = 0; its          *)
(* argument list is Var(a) followed by Var(a+1)..Var(a+c-1); when b = 0    *)
(* multres becomes c - 1 whatever it held (c >= 1: c - 1 is a count).      *)
(***************************************************************************)
C22_Step ==
    Lifts({OP_CALL}) =>
        /\ CurBlockAfter =
              CurBlock \o <<Insn_Call(IF get_b(CurIns) = 0 THEN <<>>
                                      ELSE vars_of(get_a(CurIns),
                                                   get_a(CurIns) + get_b(CurIns) - 1),
                                      FixedArgs(get_a(CurIns), get_c(CurIns)))>>
        /\ (get_b(CurIns) = 0 /\ get_c(CurIns) >= 1) =>
              lifter'.multres = get_c(CurIns) - 1

C22_CallLifting == [][C22_Step]_vars

(***************************************************************************)
(* C25: lifting CALLM(a, b, c) with multres m pushes one Call statement    *)
(* with the return list of CALL(a, b, c) and the argument list of          *)
(* CALL(a, b, c) extended by exactly m entries, the slots that follow the  *)
(* fixed arguments.                                                        *)
(***************************************************************************)
C25_Step ==
    Lifts({OP_CALLM}) =>
        /\ Len(CurBlockAfter) = Len(CurBlock) + 1
        /\ CurBlockAfter[Len(CurBlockAfter)].insn = "Call"
        /\ CurBlockAfter[Len(CurBlockAfter)].returns
              = lift_CALL(get_a(CurIns), get_b(CurIns), get_c(CurIns),
                          lifter.slots, lifter.multres).insns[1].returns
        /\ Len(CurBlockAfter[Len(CurBlockAfter)].args)
              = Len(FixedArgs(get_a(CurIns), get_c(CurIns))) + lifter.multres
        /\ CurBlockAfter[Len(CurBlockAfter)].args
              = FixedArgs(get_a(CurIns), get_c(CurIns))
                   \o exprs_of(get_a(CurIns) + Len(FixedArgs(get_a(CurIns), get_c(CurIns))),
                               get_a(CurIns) + Len(FixedArgs(get_a(CurIns), get_c(CurIns)))
                                  + lifter.multres)

C25_CallmLifting == [][C25_Step]_vars

(***************************************************************************)
(* C26: whenever the lifter has lifted a USETV/USETN (USETS, USETP alike)  *)
(* on an index, the entry of the slots table for the index has up_value    *)
(* set, whatever referenced the index before, and no later step clears it; *)
(* the entry is created at the first reference with usage counter 0 and    *)
(* each later reference increments the counter by exactly one.             *)
(***************************************************************************)
C26_Step ==
    /\ Lifts({OP_USETV, OP_USETN}) =>
          /\ get_a(CurIns) \in DOMAIN lifter'.slots
          /\ lifter'.slots[get_a(CurIns)].up_value
    /\ lifter.pc = "lifting" =>
          \A i \in DOMAIN lifter.slots :
              /\ i \in DOMAIN lifter'.slots
              /\ lifter.slots[i].up_value => lifter'.slots[i].up_value
    /\ Lifts({OP_MOV, OP_USETV, OP_USETN}) =>
          /\ get_a(CurIns) \in DOMAIN lifter'.slots
          /\ lifter'.slots[get_a(CurIns)].usage_cnt
                = IF get_a(CurIns) \in DOMAIN lifter.slots
                  THEN lifter.slots[get_a(CurIns)].usage_cnt + 1
                  ELSE 0
          /\ \A i \in DOMAIN lifter.slots \ {get_a(CurIns)} :
                lifter'.slots[i] = lifter.slots[i]

C26_UpvalueFlag == [][C26_Step]_vars

(***************************************************************************)
(* Upvalue closes: arrays over UCLO with every offset of the bounds, moves *)
(* and returns.                                                            *)
(***************************************************************************)
InitUclo == Resolve(Words({OP_UCLO}, {OP_MOV, OP_RET0}))

SpecUclo == InitUclo /\ [][Next]_vars

\* the UCLO at cur has a zero jump offset
ZeroOffset(cur) == disasm(bc_raw[cur + 1]).jump = 0

\* cur is the target of a reached UCLO with a non-zero offset
TargetOfBranch(cur) ==
    \E j \in 0..(Len(bc_raw) - 1) :
        NameAt(j) = "UCLO" /\ Covered(j) /\ ~ZeroOffset(j) /\ DestOf(j) = cur

(***************************************************************************)
(* C24: in the graph resolve_basic_blocks returns, a reached UCLO with     *)
(* zero offset at cur does not end its block: the instruction at cur + 1   *)
(* is in the same block unless a branch targets it, and when the array     *)
(* ends at cur the block has no outgoing edge and no node is made at       *)
(* cur + 1; a reached UCLO with non-zero offset ends its block with        *)
(* exactly one outgoing edge, Unconditional to its target.                 *)
(***************************************************************************)
C24_UcloBranching ==
    result = "ok" =>
        \A cur \in 0..(Len(bc_raw) - 1) :
            (NameAt(cur) = "UCLO" /\ Covered(cur)) =>
                IF ZeroOffset(cur)
                THEN /\ (cur + 1 < Len(bc_raw) /\ ~TargetOfBranch(cur + 1)) =>
                           Covered(cur + 1) /\ BlockOf(cur + 1) = BlockOf(cur)
                     /\ cur + 1 = Len(bc_raw) =>
                           OutEdges(BlockOf(cur)) = <<>> /\ (cur + 1) \notin Keys
                ELSE /\ EndsBlock(cur)
                     /\ OutEdges(BlockOf(cur)) = << <<"Unconditional", DestOf(cur)>> >>

(***************************************************************************)
(* The Jump operand on its own: Jump::from(u16) on encoded values at both  *)
(* ends and around the bias, in both builds, and the target the resolver   *)
(* computes from it at instruction index cur.                              *)
(***************************************************************************)
\* encoded values explored: 0..MaxJump, 0x8000 -+ MaxJump, 0xFFFF - MaxJump..0xFFFF
MaxJump == 8

\* `as i16` of a u16
as_i16(x) == IF x >= 32768 THEN x - 65536 ELSE x

\* unary minus on an i16: overflow for i16::MIN, a panic with overflow checks
\* (debug build) and a wrap to i16::MIN without (release build)
neg_i16(x, build) ==
    IF x # 0 - 32768 THEN [res |-> "Ok", jump |-> 0 - x]
    ELSE IF build = "debug" THEN [res |-> "panic_neg_overflow", jump |-> 0]
    ELSE [res |-> "Ok", jump |-> x]

\* Jump::from(u16)
Jump_from(val, build) ==
    IF val >= JumpBias
    THEN [res |-> "Ok", jump |-> as_i16(val - JumpBias)]
    ELSE neg_i16(as_i16(JumpBias - val), build)

JumpVals == (0..MaxJump) \cup ((JumpBias - MaxJump)..(JumpBias + MaxJump))
               \cup ((65535 - MaxJump)..65535)

JumpInput(val, cur, build) ==
    [pc |-> "input", val |-> val, cur |-> cur, build |-> build, out |-> <<>>, dest |-> None]

InitJump ==
    /\ \E val \in JumpVals, cur \in 0..MaxLen, build \in Builds :
          rd = JumpInput(val, cur, build)
    /\ bc_raw = <<>>
    /\ graph = GraphNew
    /\ stack = <<>>
    /\ result = "idle"
    /\ splits = {}
    /\ lifter = NoLifter

\* the decoding of the operand and, when it returns, the resolver's
\* ((idx + 1) as i32 + jump.0 as i32) as u32
call_Jump_from ==
    /\ rd.pc = "input"
    /\ \E j \in {Jump_from(rd.val, rd.build)} :
          rd' = [rd EXCEPT !.pc = "done", !.out = j,
                           !.dest = IF j.res = "Ok" THEN dest_block_idx(rd.cur, j.jump)
                                    ELSE None]
    /\ UNCHANGED <<bc_raw, graph, stack, result, splits, lifter>>

NextJump == call_Jump_from

SpecJump == InitJump /\ [][NextJump]_vars

(***************************************************************************)
(* C27: for every encoded 16-bit value v, decoding the Jump operand        *)
(* returns the offset v - 0x8000, a value of -32768..32767, without a      *)
(* signed overflow, v = 0 included; the resolver's target for the          *)
(* instruction at cur is cur + 1 + (v - 0x8000) whenever that is an index  *)
(* (not negative).                                                         *)
(***************************************************************************)
C27_JumpDecoding ==
    rd.pc = "done" =>
        /\ rd.out.res = "Ok"
        /\ rd.out.jump = rd.val - JumpBias
        /\ rd.out.jump \in (0 - 32768)..32767
        /\ rd.cur + 1 + (rd.val - JumpBias) >= 0 =>
              rd.dest = rd.cur + 1 + (rd.val - JumpBias)

(***************************************************************************)
(* Termination.  resolve_basic_blocks runs to its return or its panic      *)
(* without waiting for anything: the specification of the jump arrays      *)
(* with the steps of recurse_block taken as long as one is enabled.        *)
(***************************************************************************)
\* longest instruction array of the termination specification
MaxTerm == 3

\* resolve_basic_blocks(bc_raw) on an array of at most len words
ResolveUpTo(len, words) ==
    /\ \E n \in 0..len : bc_raw \in Arrays(n, words)
    /\ graph = GraphNew
    /\ stack = <<Call(0)>>
    /\ result = "running"
    /\ splits = {}
    /\ rd = NoReader
    /\ lifter = NoLifter

InitTerm == ResolveUpTo(MaxTerm, Words({OP_JMP}, {OP_ISLT, OP_MOV, OP_RET0}))

SpecTerm == InitTerm /\ [][Next]_vars /\ WF_vars(Next)

\* every jump of the array, reached or not, targets an index of 0..len
TargetsInRange ==
    \A i \in 0..(Len(bc_raw) - 1) :
        get_op(bc_raw[i + 1]) \in JumpOps => DestOf(i) \in 0..Len(bc_raw)

(***************************************************************************)
(* C28: resolve_basic_blocks terminates on every array of known opcodes,   *)
(* with Ok when every jump target is in range.  A call of recurse_block    *)
(* on an index that is a node key returns with the graph as it was; every  *)
(* other call that does not panic adds exactly one node, at its own index, *)
(* which is a fresh key (add_node never replaces a node), before it        *)
(* recurses or returns; a step between recursive calls adds no node; and   *)
(* the graph never has more than len(bc) + 1 nodes.                        *)
(***************************************************************************)
C28_Step ==
    (stack # <<>> /\ result = "running") =>
        IF Head(stack).pc = "call"
        THEN IF exists(graph, Head(stack).idx)
             THEN graph' = graph /\ stack' = Tail(stack)
             ELSE result' \in {"running", "ok"} =>
                     /\ Keys' = Keys \cup {Head(stack).idx}
                     /\ \A k \in Keys : k + Len(node_weight(graph', k)) <= Head(stack).idx
                                           \/ node_weight(graph', k) = node_weight(graph, k)
        ELSE Keys' = Keys

\* the run is over, with Ok when every jump target is in range
C28_Over == result = "ok" \/ (result # "running" /\ ~TargetsInRange)

C28_Terminates ==
    /\ [][C28_Step /\ Cardinality(Keys') <= Len(bc_raw') + 1]_vars
    /\ <>C28_Over

\* Ok was returned for an array of at least three words after a split, with
\* as many nodes as the bound allows
C28_Witness ==
    /\ result = "ok"
    /\ Len(bc_raw) >= 3
    /\ splits # {}
    /\ Cardinality(Keys) = Len(bc_raw) + 1

(***************************************************************************)
(* Reading the edge lists of the graph specification.                      *)
(***************************************************************************)
\* the indices of the edges whose source (target) is k
EdgesFrom(k) == {i \in 0..(Len(graph.edges) - 1) : graph.edges[i + 1].from = k}
EdgesTo(k) == {i \in 0..(Len(graph.edges) - 1) : graph.edges[i + 1].to = k}

\* the members of S, largest first
RECURSIVE Descending(_)
Descending(S) == IF S = {} THEN <<>> ELSE <<Max(S)>> \o Descending(S \ {Max(S)})

\* the last edge of a list has no next edge: the iteration over it ends
OutEnds(k) ==
    outputs(graph, k) = <<>>
       \/ graph.edges[outputs(graph, k)[Len(outputs(graph, k))] + 1].next_outgoing_edge = None
InEnds(k) ==
    inputs(graph, k) = <<>>
       \/ graph.edges[inputs(graph, k)[Len(inputs(graph, k))] + 1].next_incoming_edge = None

(***************************************************************************)
(* C29: after any sequence of add_node on fresh keys, add_edge between     *)
(* existing keys and split_node onto an absent key, for every node k       *)
(* outputs(k) yields exactly the indices of the edges whose from is k and  *)
(* inputs(k) exactly those whose to is k, each once, the most recently     *)
(* added first, and both iterations end (the lists have no cycle).         *)
(***************************************************************************)
C29_EdgeLists ==
    \A k \in Keys :
        /\ outputs(graph, k) = Descending(EdgesFrom(k))
        /\ inputs(graph, k) = Descending(EdgesTo(k))
        /\ OutEnds(k)
        /\ InEnds(k)

\* a node made by a split carries two outgoing edges, and some node two
\* incoming ones
C29_Witness ==
    /\ \E k \in Keys : node_weight(graph, k) = <<>> /\ Len(outputs(graph, k)) = 2
    /\ \E j \in Keys : Len(inputs(graph, j)) = 2

(***************************************************************************)
(* Every kind of branch in one array: conditional and unconditional jumps, *)
(* numeric for headers, iterator calls and iterator loops, with            *)
(* comparisons and returns, at most MaxBranch branches in an array of at   *)
(* most MaxMix words.                                                      *)
(***************************************************************************)
MaxMix == 3

InitMix ==
    /\ ResolveUpTo(MaxMix, Words({OP_JMP, OP_FORI, OP_ISNEXT, OP_ITERL}, {OP_ISLT, OP_RET0}))
    /\ Cardinality(Branches(bc_raw)) <= MaxBranch

SpecMix == InitMix /\ [][Next]_vars

\* the kinds of the outgoing edges of the block at key k, in outputs order
OutKinds(k) == [n \in 1..Len(OutEdges(k)) |-> OutEdges(k)[n][1]]

(***************************************************************************)
(* C30: in every graph resolve_basic_blocks returns, each node has at most *)
(* two outgoing edges; two outgoing edges are one True and one False, or   *)
(* one LoopBody and one LoopOut; a single outgoing edge is Unconditional   *)
(* or LoopIter; no edge has kind Loop.  This holds for the blocks split    *)
(* after their edges were added too.                                       *)
(***************************************************************************)
C30_EdgeKindShapes ==
    result = "ok" =>
        /\ \A k \in Keys :
              /\ Len(OutKinds(k)) <= 2
              /\ Len(OutKinds(k)) = 2 =>
                    SeqToSet(OutKinds(k)) \in {{"True", "False"}, {"LoopBody", "LoopOut"}}
              /\ Len(OutKinds(k)) = 1 => OutKinds(k)[1] \in {"Unconditional", "LoopIter"}
        /\ \A i \in 1..Len(graph.edges) : graph.edges[i].weight # "Loop"

\* Ok was returned with a True/False node, a LoopBody/LoopOut node and a node
\* made by a split that carries two outgoing edges
C30_Witness ==
    /\ result = "ok"
    /\ \E k \in Keys : SeqToSet(OutKinds(k)) = {"True", "False"}
    /\ \E k \in Keys : SeqToSet(OutKinds(k)) = {"LoopBody", "LoopOut"}
    /\ \E k \in splits : Len(OutKinds(k)) = 2

====
